---- MODULE Spec2Model ----
(***************************************************************************)
(* The task orchestration core of the MCP server: StateManager             *)
(* (src/mcp_server/core/state_manager.py), the per-task LangGraph          *)
(* start_task -> process_request -> custom_end_node with its MemorySaver   *)
(* checkpointer, and the routes of src/mcp_server/api/routes.py that       *)
(* drive it (register_agent, request_action, post_event, get_task_status). *)
(*                                                                         *)
(* Python values are modelled as follows.  Optional[X] is a sequence of    *)
(* length 0 (None) or 1.  A dict with a fixed set of interesting keys is a *)
(* record whose fields hold Absent when the key is missing.  A dict with   *)
(* arbitrary keys (agent_responses) is a function on the set of its keys.  *)
(***************************************************************************)
EXTENDS Integers, Naturals, Sequences, FiniteSets, TLC

\* Cap on the total number of history entries over all tasks.
MaxHistory == 6

\* Task ids (uuid4 strings) a caller can name.
TaskIds == {"task_1", "task_2"}

\* Agent identifiers a caller can name.
AgentIds == {"pixel_forge", "base_agent"}

None == <<>>
Some(x) == <<x>>

\* A key that the dict does not hold.
Absent == "<absent>"
\* A JSON list used as a value: event_data is Dict[str, Any] and a list is
\* not hashable, so it cannot be used as a key of agent_responses.
Unhashable == "<list>"

\* A request or event payload: the keys the nodes read.
Dict(action_type, target_agent_id, source_agent_id, event_type, status) ==
    [action_type |-> action_type, target_agent_id |-> target_agent_id,
     source_agent_id |-> source_agent_id, event_type |-> event_type,
     status |-> status]

EmptyDict == Dict(Absent, Absent, Absent, Absent, Absent)

\* Truthiness of a dict: it has at least one key.
Truthy(d) == d # EmptyDict

\* d.get(key, default)
Get(v, default) == IF v = Absent THEN default ELSE v

\* The initial_task_input request_action builds (routes.py 139-145).
ActionInput(action_type, target_agent_id) ==
    Dict(action_type, target_agent_id, Absent, Absent, Absent)

\* Payloads an agent or another caller posts as event_data / event_input.
EventDicts ==
    {EmptyDict}
    \cup {ActionInput("generate", "pixel_forge")}
    \cup {Dict(Absent, Absent, "pixel_forge", "progress", s) :
            s \in {"completed_successfully", "failed"}}
    \cup {Dict(Absent, Unhashable, Absent, "progress", Absent)}

\* Optional[Dict[str, Any]]
EventInputs == {None} \cup {Some(d) : d \in EventDicts}

\* BaseAgent.process_task raises NotImplementedError; a specialised agent
\* overrides it and returns a result.
process_task(agent_id) ==
    IF agent_id = "base_agent" THEN "raises" ELSE "completed_successfully"

(***************************************************************************)
(* ManagedTaskState and the entries the nodes write into it.               *)
(***************************************************************************)

\* ManagedTaskState(task_id=...): the pristine record.
ManagedTaskState(task_id) ==
    [task_id |-> task_id, current_step |-> "initial", status |-> "pending",
     history |-> <<>>, agent_responses |-> <<>>, error_info |-> None]

\* One history entry: its step and the values its message is built from.
Entry(step, action_type, agent_id, event_type, data) ==
    [step |-> step, action_type |-> action_type, agent_id |-> agent_id,
     event_type |-> event_type, data |-> data]

\* One value of agent_responses.
Response(last_event_type, status, details) ==
    [last_event_type |-> last_event_type, status |-> status, details |-> details]

\* d[key] = value on a dict modelled as a function on its keys.
Put(d, key, value) ==
    [k \in (DOMAIN d) \cup {key} |-> IF k = key THEN value ELSE d[k]]

(***************************************************************************)
(* The nodes of the graph.  A GraphState is [task_state, input_data].      *)
(***************************************************************************)

start_task_node(state) ==
    [state EXCEPT !.task_state =
        [state.task_state EXCEPT
            !.current_step = "start_task",
            !.status = "in_progress",
            !.history = Append(@, Entry("start_task", Absent, Absent, Absent, None))]]

\* Mutant of process_request_node: the entry written is the only one
\* agent_responses keeps.
process_request_node_forgets_others(state) ==
    LET initial_graph_input == state.input_data
        logged == [state.task_state EXCEPT
                    !.current_step = "process_request",
                    !.history = Append(@,
                        Entry("process_request_initiated",
                              IF initial_graph_input.action_type = Absent
                              THEN "N/A" ELSE initial_graph_input.action_type,
                              IF initial_graph_input.target_agent_id = Absent
                              THEN "N/A" ELSE initial_graph_input.target_agent_id,
                              Absent, None))]
        key == IF initial_graph_input.target_agent_id = Absent
               THEN "unknown_agent" ELSE initial_graph_input.target_agent_id
    IN  IF key = Unhashable
        THEN [task_state |-> logged, raised |-> TRUE]
        ELSE [task_state |->
                [logged EXCEPT !.agent_responses =
                    [k \in {key} |-> Response(Absent, "dispatched", None)]],
              raised |-> FALSE]

\* Returns the node's output and whether the node raised; when it raised,
\* task_state holds the in-place mutations made before the exception.
process_request_node(state) ==
    LET task_state == state.task_state
        initial_graph_input == state.input_data
        agent_event_data == initial_graph_input
        stepped == [task_state EXCEPT !.current_step = "process_request"]
    IN  IF Truthy(agent_event_data) /\ agent_event_data # initial_graph_input
        THEN
            LET agent_id_reporting == Get(agent_event_data.source_agent_id, "unknown_agent")
                event_type == Get(agent_event_data.event_type, "unknown_event")
                logged == [stepped EXCEPT !.history = Append(@,
                              Entry("agent_event_received", Absent, agent_id_reporting,
                                    event_type, Some(agent_event_data)))]
                answered == [logged EXCEPT !.agent_responses = Put(@, agent_id_reporting,
                              Response(event_type, agent_event_data.status,
                                       Some(agent_event_data)))]
            IN  IF agent_event_data.status = Absent
                THEN [task_state |-> logged, raised |-> FALSE]
                ELSE IF agent_event_data.status = "completed_successfully"
                THEN [task_state |-> [answered EXCEPT !.status = "nearing_completion"],
                      raised |-> FALSE]
                ELSE IF agent_event_data.status = "failed"
                THEN [task_state |-> [answered EXCEPT !.status = "error"],
                      raised |-> FALSE]
                ELSE [task_state |-> answered, raised |-> FALSE]
        ELSE
            LET logged == [stepped EXCEPT !.history = Append(@,
                              Entry("process_request_initiated",
                                    Get(initial_graph_input.action_type, "N/A"),
                                    Get(initial_graph_input.target_agent_id, "N/A"),
                                    Absent, None))]
                key == Get(initial_graph_input.target_agent_id, "unknown_agent")
            IN  IF key = Unhashable
                THEN [task_state |-> logged, raised |-> TRUE]
                ELSE [task_state |->
                        [logged EXCEPT !.agent_responses =
                            Put(@, key, Response(Absent, "dispatched", None))],
                      raised |-> FALSE]

\* Mutant of end_task_node: the node forgets to set current_step.
end_task_node_keeps_step(state) ==
    [state EXCEPT !.task_state =
        [state.task_state EXCEPT
            !.status = "completed",
            !.history = Append(@, Entry("end_task", Absent, Absent, Absent, None))]]

end_task_node(state) ==
    [state EXCEPT !.task_state =
        [state.task_state EXCEPT
            !.current_step = "completed",
            !.status = "completed",
            !.history = Append(@, Entry("end_task", Absent, Absent, Absent, None))]]

\* compiled_graph.stream(input, config): start_task, process_request,
\* custom_end_node in this order, the checkpointer saving the values after
\* each completed step.  When process_request raises, the exception leaves
\* stream and the checkpoint is the one saved after start_task; the saver
\* serialises it while process_request is already mutating the same
\* ManagedTaskState object, so with racy it carries those mutations too.
stream(input, racy) ==
    LET started == start_task_node(input)
        processed == process_request_node(started)
    IN  IF processed.raised
        THEN [values |-> IF racy
                         THEN [started EXCEPT !.task_state = processed.task_state]
                         ELSE started,
              raised |-> TRUE]
        ELSE [values |-> end_task_node(
                            [started EXCEPT !.task_state = processed.task_state]),
              raised |-> FALSE]

(***************************************************************************)
(* StateManager.  graphs is the set of task ids with a compiled graph and  *)
(* checkpoint maps a thread id to the values the MemorySaver holds for it  *)
(* (None before the first step of the first run).                          *)
(***************************************************************************)

VARIABLES
    registered_agents,  \* app.state.registered_agents: the ids registered
    graphs,             \* StateManager.graphs: task ids with a compiled graph
    checkpoint,         \* StateManager.checkpointer: thread id -> Optional[GraphState]
    events_log,         \* routes.events_log: the event types posted so far
    returned,           \* per task id, what the latest advance on it returned
    lastOp              \* the latest call and what its caller observed

\* The StateManager and the routes.
managerVars == <<registered_agents, graphs, checkpoint, events_log, returned, lastOp>>

\* One toolchain bridge instance, its callers and its worker threads.
VARIABLES
    bridge_class,   \* the class of the instance
    request_queue,  \* _request_queue / generation_queue / command_queue: request ids
    requests,       \* the requests created so far; a request id is an index
    futures,        \* the Future of each request
    result_cache,   \* RetroDiffusionToolchainBridge.result_cache: key -> asset
    worker_thread,  \* BaseToolchainBridge._worker_thread: Optional[thread]
    worker_lock,    \* BaseToolchainBridge._worker_lock: Optional[holder]
    threads,        \* the worker threads started so far; a thread is an index
    callers,        \* the calling threads: where each is in its submit
    handle_calls    \* the request ids the external function was invoked for, in order

bridgeVars == <<bridge_class, request_queue, requests, futures, result_cache,
                worker_thread, worker_lock, threads, callers, handle_calls>>

\* The CollaborationManager.
VARIABLES
    agent_profiles,               \* registered_agents: the AgentProfiles in dict order
    pending_assistance_requests,  \* request_id -> TaskAssistanceRequest
    dispatching,                  \* the request_assistance calls suspended at their await
    clock,                        \* int(time.time())
    collabOp                      \* the latest call and what its caller observed

collabVars == <<agent_profiles, pending_assistance_requests, dispatching, clock,
                collabOp>>

\* One node of the graph, called on the GraphState it is handed.
VARIABLES
    node_pc,     \* the node that is called next
    node_state   \* the GraphState handed to it

nodeVars == <<node_pc, node_state>>

\* invoke_graph_update called from several threads.
VARIABLES
    advancing,  \* per calling thread, where its call is and its locals
    last_put    \* per thread id of the checkpointer, the call that saved last

advanceVars == <<advancing, last_put>>

\* The AgentEventBus.
VARIABLES
    subscribers,    \* event_type -> the callbacks subscribed, in list order
    event_history,  \* the AgentEvents kept, oldest first
    published,      \* how many events have been published
    busOp           \* the latest call and what its caller observed

busVars == <<subscribers, event_history, published, busOp>>

\* The MCPServer behind /execute_agent.
VARIABLES
    server_agents,  \* MCPServer.agents: agent_id -> the agent instantiated
    toolchains,     \* the toolchain names whose bridge is not None
    apiOp           \* the latest handle_api_request and what its caller observed

serverVars == <<server_agents, toolchains, apiOp>>

vars == <<managerVars, bridgeVars, collabVars, nodeVars, advanceVars, busVars,
          serverVars>>

\* What a step of one component leaves alone.
besidesManager == <<bridgeVars, collabVars, nodeVars, advanceVars, busVars, serverVars>>
besidesBridge == <<managerVars, collabVars, nodeVars, advanceVars, busVars, serverVars>>
besidesCollaboration == <<managerVars, bridgeVars, nodeVars, advanceVars, busVars, serverVars>>
besidesNodes == <<managerVars, bridgeVars, collabVars, advanceVars, busVars, serverVars>>
besidesAdvance == <<bridgeVars, collabVars, nodeVars, busVars, serverVars>>
besidesBus == <<managerVars, bridgeVars, collabVars, nodeVars, advanceVars, serverVars>>
besidesServer == <<managerVars, bridgeVars, collabVars, nodeVars, advanceVars, busVars>>

\* Cap on the length of events_log.
MaxEvents == 1

\* Mutant of final_input_for_stream: the task_state of the checkpoint is not
\* reused, a new ManagedTaskState is streamed on every call.
final_input_for_stream_fresh(snapshot, task_id, event_input) ==
    [task_state |-> ManagedTaskState(task_id),
     input_data |-> IF event_input # None THEN event_input[1]
                    ELSE IF snapshot = None THEN EmptyDict
                    ELSE snapshot[1].input_data]

\* The GraphState the graph is streamed with (state_manager.py 256-300).
\* A thread without a checkpoint reads as a snapshot without task_state,
\* and both branches then build the same fresh state.
final_input_for_stream(snapshot, task_id, event_input) ==
    IF snapshot = None
    THEN [task_state |-> ManagedTaskState(task_id),
          input_data |-> IF event_input = None THEN EmptyDict ELSE event_input[1]]
    ELSE [task_state |-> snapshot[1].task_state,
          input_data |-> IF event_input # None THEN event_input[1]
                         ELSE snapshot[1].input_data]

\* StateManager.get_graph_state on a given store.
get_graph_state(gs, cp, task_id) ==
    IF task_id \notin gs THEN None
    ELSE IF cp[task_id] = None THEN None
    ELSE Some(cp[task_id][1].task_state)

\* Mutant of invoke_graph_update: the caller gets the ManagedTaskState that
\* was streamed in, not the one read back from the checkpointer.
invoke_graph_update_stale(gs, cp, task_id, event_input, racy) ==
    IF task_id \notin gs
    THEN [checkpoint |-> cp, result |-> None, raised |-> FALSE]
    ELSE
        LET input == final_input_for_stream(cp[task_id], task_id, event_input)
            run == stream(input, racy)
        IN  [checkpoint |-> [cp EXCEPT ![task_id] = Some(run.values)],
             result |-> IF run.raised THEN None ELSE Some(input.task_state),
             raised |-> run.raised]

\* Mutant of invoke_graph_update: a task id without a graph is streamed all
\* the same.
invoke_graph_update_unregistered(gs, cp, task_id, event_input, racy) ==
    LET run == stream(final_input_for_stream(cp[task_id], task_id, event_input), racy)
        saved == [cp EXCEPT ![task_id] = Some(run.values)]
    IN  [checkpoint |-> saved,
         result |-> IF run.raised THEN None ELSE get_graph_state(gs, saved, task_id),
         raised |-> run.raised]

\* Mutant of invoke_graph_update: the checkpointer ignores the thread id and
\* saves the run under every thread.
invoke_graph_update_one_thread(gs, cp, task_id, event_input, racy) ==
    IF task_id \notin gs
    THEN [checkpoint |-> cp, result |-> None, raised |-> FALSE]
    ELSE
        LET run == stream(final_input_for_stream(cp[task_id], task_id, event_input), racy)
            saved == [t \in DOMAIN cp |-> Some(run.values)]
        IN  [checkpoint |-> saved,
             result |-> IF run.raised THEN None ELSE get_graph_state(gs, saved, task_id),
             raised |-> run.raised]

\* StateManager.invoke_graph_update: the checkpoint store it leaves, what it
\* returns and whether an exception left it.
invoke_graph_update(gs, cp, task_id, event_input, racy) ==
    IF task_id \notin gs
    THEN [checkpoint |-> cp, result |-> None, raised |-> FALSE]
    ELSE
        LET run == stream(final_input_for_stream(cp[task_id], task_id, event_input), racy)
            saved == [cp EXCEPT ![task_id] = Some(run.values)]
        IN  [checkpoint |-> saved,
             result |-> IF run.raised THEN None ELSE get_graph_state(gs, saved, task_id),
             raised |-> run.raised]

\* Mutant of initialize_task_graph: the graph is streamed once at
\* initialisation, which puts a state into the checkpointer.
initialize_task_graph_streams(gs, cp, task_id) ==
    [graphs |-> gs \cup {task_id},
     checkpoint |-> [cp EXCEPT ![task_id] =
        Some(stream([task_state |-> ManagedTaskState(task_id),
                     input_data |-> EmptyDict], FALSE).values)],
     result |-> ManagedTaskState(task_id)]

\* StateManager.initialize_task_graph: the graphs and the checkpoint store it
\* leaves and the state it returns.  The graph is compiled and registered;
\* nothing is streamed, so the checkpointer is not written.
initialize_task_graph(gs, cp, task_id) ==
    [graphs |-> gs \cup {task_id}, checkpoint |-> cp,
     result |-> ManagedTaskState(task_id)]

\* What a caller observes of one call.
Observed(op, task_id, agent_id, result, raised, status_code) ==
    [op |-> op, task_id |-> task_id, agent_id |-> agent_id, result |-> result,
     raised |-> raised, status_code |-> status_code]

\* Total number of history entries the checkpointer holds for the ids in S.
RECURSIVE HistoryTotal(_)
HistoryTotal(S) ==
    IF S = {} THEN 0
    ELSE LET t == CHOOSE x \in S : TRUE
         IN  (IF checkpoint[t] = None THEN 0
              ELSE Len(checkpoint[t][1].task_state.history))
             + HistoryTotal(S \ {t})

\* An advance adds at most three entries.
RoomForAdvance == HistoryTotal(TaskIds) + 3 <= MaxHistory

(***************************************************************************)
(* The toolchain bridges: BaseToolchainBridge, and the two bridges of the  *)
(* integration modules, RetroDiffusionToolchainBridge (with a result       *)
(* cache) and MuseToolchainBridge.  A request id (uuid4) is the index of   *)
(* the request in requests, a thread is its index in threads.  The         *)
(* external function (_handle_specific_request, pipeline.generate_asset,   *)
(* _send_to_unity with the response handler) returns a value or raises.    *)
(***************************************************************************)

BridgeClasses ==
    {"BaseToolchainBridge", "RetroDiffusionToolchainBridge", "MuseToolchainBridge"}

\* The classes whose submit starts a thread on every call.
ThreadPerSubmit == {"RetroDiffusionToolchainBridge", "MuseToolchainBridge"}

\* Cap on the number of requests submitted to the bridge.
MaxRequests == 2

\* The threads that call submit.
Callers == {"caller_1", "caller_2"}

\* A dict with its keys in insertion order.
OrderedDict(keys, values) == [keys |-> keys, values |-> values]

Has(d, key) == \E i \in 1..Len(d.keys) : d.keys[i] = key

\* d.get(key, default)
DictGet(d, key, default) == IF Has(d, key) THEN d.values[key] ELSE default

\* The parameter dicts the callers pass: the same dict in two insertion
\* orders, and a dict that validates to the defaults.
ParameterDicts ==
    {OrderedDict(<<"tileable", "animation_frames">>,
                 [tileable |-> TRUE, animation_frames |-> 2]),
     OrderedDict(<<"animation_frames", "tileable">>,
                 [tileable |-> TRUE, animation_frames |-> 2]),
     OrderedDict(<<"animation_frames">>, [animation_frames |-> 0])}

Prompts == {"a heroic knight"}

is_power_of_two(n) == n > 0 /\ \E e \in 0..12 : n = 2^e

\* validate_retro_diffusion_parameters: a new dict, its keys inserted in
\* the order resolution, palette_lock, tileable, animation_frames.
validate_retro_diffusion_parameters(parameters) ==
    LET resolution == DictGet(parameters, "resolution", <<>>)
        animation_frames == DictGet(parameters, "animation_frames", 1)
    IN  OrderedDict(
            <<"resolution", "palette_lock", "tileable", "animation_frames">>,
            [resolution |->
                IF /\ Len(resolution) = 2
                   /\ is_power_of_two(resolution[1])
                   /\ is_power_of_two(resolution[2])
                THEN resolution ELSE <<64, 64>>,
             palette_lock |-> DictGet(parameters, "palette_lock", TRUE),
             tileable |-> DictGet(parameters, "tileable", FALSE),
             animation_frames |->
                IF animation_frames > 0 THEN animation_frames ELSE 1])

\* The key names of the validated parameters in sorted order.
SortedKeys == <<"animation_frames", "palette_lock", "resolution", "tileable">>

\* json.dumps(d, sort_keys=True): the items of d in the order of their keys.
json_dumps_sort_keys(d) ==
    OrderedDict(SelectSeq(SortedKeys, LAMBDA k : Has(d, k)), d.values)

\* RetroDiffusionToolchainBridge._generate_cache_key
generate_cache_key(prompt, parameters) ==
    <<prompt, json_dumps_sort_keys(parameters)>>

\* A Future: pending, or resolved with a result or with an exception.
Pending == [state |-> "pending", value |-> 0]
Result(object) == [state |-> "result", value |-> object]
Exception(error) == [state |-> "exception", value |-> error]

\* The None that shutdown puts on the queue to stop the worker.
StopSentinel == 0

\* A worker thread: where it is in its loop and the request it holds.
Thread(pc, request) == [pc |-> pc, request |-> request]

is_alive(thread) == thread.pc # "finished"

\* A calling thread: where it is in submit and the request it submits.
Caller(pc, request) == [pc |-> pc, request |-> request]

\* The state of a bridge of class cls after __init__.
BridgeConstructed(cls) ==
    /\ bridge_class = cls
    /\ request_queue = <<>>
    /\ requests = <<>>
    /\ futures = <<>>
    /\ result_cache = <<>>
    /\ worker_thread = None
    /\ worker_lock = None
    /\ threads = <<>>
    /\ callers = [c \in Callers |-> Caller("idle", 0)]
    /\ handle_calls = <<>>

(***************************************************************************)
(* The CollaborationManager.  registered_agents, a dict, is the sequence   *)
(* of its values in insertion order.  A request_id,                        *)
(* assist_<task>_<seconds>, is the pair of its task id and the clock.  A   *)
(* suspended request_assistance call holds the TaskAssistanceRequest it    *)
(* created: is_bound says that pending_assistance_requests still binds the *)
(* request_id to that object, and not to a later one.  An object that      *)
(* neither the dict nor a suspended call holds is out of reach and is not  *)
(* part of the state; the fields of a TaskAssistanceRequest that no code   *)
(* reads are left out.                                                     *)
(***************************************************************************)

\* The agent ids the callers use; register_agent takes any string.
CollabAgentIds == {"A", "B", ""}

Capabilities == {"x", "y"}

\* The capabilities each agent is registered with.
CapabilitiesOf(agent_id) == IF agent_id = "" THEN {"y"} ELSE {"x"}

OriginalTaskIds == {"task_1"}

\* The seconds of the clock while the calls are made.
Seconds == {0, 1}

\* Cap on the number of request_assistance calls suspended at a time.
MaxInFlight == 2

AgentProfile(agent_id, capabilities, current_task_id, status) ==
    [agent_id |-> agent_id, capabilities |-> capabilities,
     current_task_id |-> current_task_id, status |-> status]

TaskAssistanceRequest(request_id, status, assigned_assisting_agent_id) ==
    [request_id |-> request_id, status |-> status,
     assigned_assisting_agent_id |-> assigned_assisting_agent_id]

\* A request_assistance call suspended at its await.
Dispatching(assistance_request, is_bound) ==
    [request_id |-> assistance_request.request_id,
     suitable_assisting_agent_id |-> assistance_request.assigned_assisting_agent_id,
     is_bound |-> is_bound]

\* agent_id in self.registered_agents
Registered(agents, agent_id) == \E i \in 1..Len(agents) : agents[i].agent_id = agent_id

\* The truth value of an Optional[str]: None and "" are false.
TruthyId(optional_id) == optional_id # None /\ optional_id[1] # ""

\* What the caller of the latest call on the CollaborationManager observes:
\* whether the call has returned, and what.  The op of register_agent and
\* of update_agent_status is "returned".
CollabObserved(op, has_returned, result) ==
    [op |-> op, has_returned |-> has_returned, result |-> result]

\* The state after CollaborationManager.__init__.
CollaborationManagerConstructed ==
    /\ agent_profiles = <<>>
    /\ pending_assistance_requests = <<>>
    /\ dispatching = <<>>
    /\ clock = 0
    /\ collabOp = CollabObserved("returned", TRUE, None)

\* The state after StateManager.__init__ and the start of the application.
StateManagerConstructed ==
    /\ registered_agents = {}
    /\ graphs = {}
    /\ checkpoint = [t \in TaskIds |-> None]
    /\ events_log = <<>>
    /\ returned = [t \in TaskIds |-> None]
    /\ lastOp = Observed("init", None, Absent, None, FALSE, 0)

\* No node is being called on its own.
NoNodeCalled ==
    /\ node_pc = "__end__"
    /\ node_state = None

\* The threads that call invoke_graph_update.
AdvanceCallers == {"thread_1", "thread_2"}

\* A thread that is not in a call.
NotAdvancing == [pc |-> "idle"]

\* No thread is in a call of invoke_graph_update.
NoAdvance ==
    /\ advancing = [c \in AdvanceCallers |-> NotAdvancing]
    /\ last_put = [t \in TaskIds |-> None]

\* What the caller of a method of the AgentEventBus observed: the callbacks
\* called in order, what each coroutine ended with, and what the call raised.
BusObserved(op, event_type, invoked, results, raised) ==
    [op |-> op, event_type |-> event_type, invoked |-> invoked,
     results |-> results, raised |-> raised]

\* The state after AgentEventBus.__init__.
AgentEventBusConstructed ==
    /\ subscribers = <<>>
    /\ event_history = <<>>
    /\ published = 0
    /\ busOp = BusObserved("init", Absent, <<>>, <<>>, None)

\* The response handle_api_request returns; error holds the error code.
ApiResponse(task_id, status, result, error) ==
    [task_id |-> task_id, status |-> status, result |-> result, error |-> error]

\* What the caller of handle_api_request observed: the request, the
\* response returned, None if the call raised, the handlers and bridges
\* called on the way, and the exception raised in the body of the try.
ApiObserved(request_data, response, called, raised) ==
    [request_data |-> request_data, response |-> response, called |-> called,
     raised |-> raised]

\* The state after MCPServer.__init__ with the given agents instantiated
\* and the given toolchain bridges available.
MCPServerConstructed(agent_instances, bridges) ==
    /\ server_agents = agent_instances
    /\ toolchains = bridges
    /\ apiOp = ApiObserved(Absent, None, <<>>, Absent)

\* An MCPServer without agents and without bridges.
NoAgentsNoBridges == MCPServerConstructed(<<>>, {})

Init ==
    /\ StateManagerConstructed
    /\ BridgeConstructed("BaseToolchainBridge")
    /\ CollaborationManagerConstructed
    /\ NoNodeCalled
    /\ NoAdvance
    /\ AgentEventBusConstructed
    /\ NoAgentsNoBridges

(***************************************************************************)
(* Direct calls of the StateManager, as its tests make them.               *)
(***************************************************************************)

\* initialize_task_graph(task_id, initial_input).  Without a task_id the
\* ManagedTaskState default factory draws a uuid4, which is one more id.
InitializeTaskGraph(task_id) ==
    LET init == initialize_task_graph(graphs, checkpoint, task_id)
    IN  /\ graphs' = init.graphs
        /\ checkpoint' = init.checkpoint
        /\ lastOp' = Observed("initialize_task_graph", Some(task_id), Absent,
                               Some(init.result), FALSE, 0)
        /\ UNCHANGED <<registered_agents, events_log, returned>>

InvokeGraphUpdate(task_id, event_input) ==
    /\ task_id \in graphs => RoomForAdvance
    /\ \E racy \in BOOLEAN :
        LET call == invoke_graph_update(graphs, checkpoint, task_id, event_input, racy)
        IN  /\ checkpoint' = call.checkpoint
            /\ returned' = [returned EXCEPT ![task_id] = call.result]
            /\ lastOp' = Observed("invoke_graph_update", Some(task_id), Absent,
                                   call.result, call.raised, 0)
    /\ UNCHANGED <<registered_agents, graphs, events_log>>

GetGraphState(task_id) ==
    /\ lastOp' = Observed("get_graph_state", Some(task_id), Absent,
                           get_graph_state(graphs, checkpoint, task_id), FALSE, 0)
    /\ UNCHANGED <<registered_agents, graphs, checkpoint, events_log, returned>>

(***************************************************************************)
(* The routes.  status_code is the HTTP status of the response; raised     *)
(* says that an exception left the handler.                                *)
(***************************************************************************)

register_agent(agent_id) ==
    /\ IF agent_id \in registered_agents
       THEN /\ lastOp' = Observed("register_agent", None, agent_id, None, TRUE, 409)
            /\ UNCHANGED registered_agents
       ELSE /\ registered_agents' = registered_agents \cup {agent_id}
            /\ lastOp' = Observed("register_agent", None, agent_id, None, FALSE, 201)
    /\ UNCHANGED <<graphs, checkpoint, events_log, returned>>

\* The accepted branch of request_action: request_id is a new uuid4 and is
\* the task id.  invoke_graph_update is a plain function, so awaiting its
\* result raises TypeError after the graph has run; the handler's
\* except clause logs it and the 202 response follows.
request_action_accepted(agent_id, action_type, task_id) ==
    LET initial_task_input == ActionInput(action_type, agent_id)
        init == initialize_task_graph(graphs, checkpoint, task_id)
    IN  /\ RoomForAdvance
        /\ graphs' = init.graphs
        /\ \E racy \in BOOLEAN :
            LET call == invoke_graph_update(init.graphs, init.checkpoint, task_id,
                                            Some(initial_task_input), racy)
            IN  /\ checkpoint' = call.checkpoint
                /\ returned' = [returned EXCEPT ![task_id] = call.result]
        /\ lastOp' = Observed("request_action", Some(task_id), agent_id, None, FALSE, 202)
        /\ UNCHANGED <<registered_agents, events_log>>

\* Mutant of request_action_rejected: the registry is checked only after the
\* graph of the new task id has been initialised.
request_action_rejected_late(agent_id) ==
    /\ \E task_id \in TaskIds \ graphs :
            graphs' = initialize_task_graph(graphs, checkpoint, task_id).graphs
    /\ lastOp' = Observed("request_action", None, agent_id, None, TRUE, 404)
    /\ UNCHANGED <<registered_agents, checkpoint, events_log, returned>>

\* The rejected branch: HTTPException 404 before anything is created.
request_action_rejected(agent_id) ==
    /\ lastOp' = Observed("request_action", None, agent_id, None, TRUE, 404)
    /\ UNCHANGED <<registered_agents, graphs, checkpoint, events_log, returned>>

\* Mutant of request_action: the target agent is not looked up.
request_action_unchecked(agent_id, action_type) ==
    \E task_id \in TaskIds \ graphs :
        request_action_accepted(agent_id, action_type, task_id)

request_action(agent_id, action_type) ==
    IF agent_id \notin registered_agents
    THEN request_action_rejected(agent_id)
    ELSE \E task_id \in TaskIds \ graphs :
            request_action_accepted(agent_id, action_type, task_id)

\* post_event: the event is logged, and with a task_id the graph is
\* advanced with event_data.  With a task_id the handler never reaches its
\* return: either a node raised, or awaiting the plain return value of
\* invoke_graph_update raised TypeError, outside any try block.
post_event(task_id, event_type, event_data) ==
    /\ Len(events_log) < MaxEvents
    /\ events_log' = Append(events_log, event_type)
    /\ IF task_id = None
       THEN /\ lastOp' = Observed("post_event", None, Absent, None, FALSE, 201)
            /\ UNCHANGED <<checkpoint, returned>>
       ELSE /\ task_id[1] \in graphs => RoomForAdvance
            /\ \E racy \in BOOLEAN :
                LET call == invoke_graph_update(graphs, checkpoint, task_id[1],
                                                Some(event_data), racy)
                IN  /\ checkpoint' = call.checkpoint
                    /\ returned' = [returned EXCEPT ![task_id[1]] = call.result]
            /\ lastOp' = Observed("post_event", task_id, Absent, None, TRUE, 500)
    /\ UNCHANGED <<registered_agents, graphs>>

get_task_status(task_id) ==
    LET task_state == get_graph_state(graphs, checkpoint, task_id)
    IN  /\ lastOp' = IF task_state = None
                      THEN Observed("get_task_status", Some(task_id), Absent, None, TRUE, 404)
                      ELSE Observed("get_task_status", Some(task_id), Absent, task_state,
                                    FALSE, 200)
        /\ UNCHANGED <<registered_agents, graphs, checkpoint, events_log, returned>>

ActionTypes == {"generate"}
EventTypes == {"progress"}

\* The calls on the StateManager and the routes; no bridge is in use.
Next ==
    \/ \E t \in TaskIds : InitializeTaskGraph(t) /\ UNCHANGED besidesManager
    \/ \E t \in TaskIds, e \in EventInputs :
            InvokeGraphUpdate(t, e) /\ UNCHANGED besidesManager
    \/ \E t \in TaskIds : GetGraphState(t) /\ UNCHANGED besidesManager
    \/ \E a \in AgentIds : register_agent(a) /\ UNCHANGED besidesManager
    \/ \E a \in AgentIds, k \in ActionTypes :
            request_action(a, k) /\ UNCHANGED besidesManager
    \/ \E t \in {None} \cup {Some(x) : x \in TaskIds}, k \in EventTypes, d \in EventDicts :
            post_event(t, k, d) /\ UNCHANGED besidesManager
    \/ \E t \in TaskIds : get_task_status(t) /\ UNCHANGED besidesManager

Spec == Init /\ [][Next]_vars

(***************************************************************************)
(* The nodes as the functions they are: each is called on a GraphState and *)
(* returns one.  The GraphState that enters a node is drawn from the       *)
(* values a ManagedTaskState can hold; the nodes that follow it in the     *)
(* graph are called on what it returns.                                    *)
(***************************************************************************)

\* ManagedTaskState.status is a str; these are the values the code writes.
Statuses == {"pending", "in_progress", "nearing_completion", "error", "completed"}

\* The values the code writes to ManagedTaskState.current_step.
Steps == {"initial", "start_task", "process_request", "completed"}

Nodes == {"start_task", "process_request", "custom_end_node"}

GraphStates ==
    {[task_state |-> [ManagedTaskState("task_1") EXCEPT !.status = status,
                                                        !.current_step = step],
      input_data |-> d] :
        status \in Statuses, step \in Steps, d \in EventDicts}

NodeInit ==
    /\ StateManagerConstructed
    /\ BridgeConstructed("BaseToolchainBridge")
    /\ CollaborationManagerConstructed
    /\ node_pc \in Nodes
    /\ node_state \in GraphStates
    /\ AgentEventBusConstructed
    /\ NoAgentsNoBridges
    /\ NoAdvance

StartTaskNode ==
    /\ node_pc = "start_task"
    /\ node_state' = start_task_node(node_state)
    /\ node_pc' = "process_request"

\* When the node raises, the exception leaves the graph.
ProcessRequestNode ==
    /\ node_pc = "process_request"
    /\ LET output == process_request_node(node_state)
       IN  /\ node_state' = [node_state EXCEPT !.task_state = output.task_state]
           /\ node_pc' = IF output.raised THEN "raised" ELSE "custom_end_node"

EndTaskNode ==
    /\ node_pc = "custom_end_node"
    /\ node_state' = end_task_node(node_state)
    /\ node_pc' = "__end__"

NodeNext ==
    \/ StartTaskNode /\ UNCHANGED besidesNodes
    \/ ProcessRequestNode /\ UNCHANGED besidesNodes
    \/ EndTaskNode /\ UNCHANGED besidesNodes

NodeSpec == NodeInit /\ [][NodeNext]_vars

(***************************************************************************)
(* invoke_graph_update step by step, for calls that overlap.  A call loads *)
(* the snapshot once, runs the nodes on its own copy of the values and     *)
(* the checkpointer saves the values after each node; a step is what one   *)
(* call does between two accesses of the checkpointer.                     *)
(***************************************************************************)

\* The task the overlapping calls are for.
AdvanceTaskIds == {"task_1"}

\* What the overlapping calls pass as event_input.
AdvanceInputs == {None, Some(EmptyDict), Some(ActionInput("generate", "pixel_forge"))}

\* A call in progress: the node it runs next, its arguments, the snapshot
\* it loaded and the values of its run.
Advancing(pc, task_id, event_input, snapshot, values) ==
    [pc |-> pc, task_id |-> task_id, event_input |-> event_input,
     snapshot |-> snapshot, values |-> values]

\* Mutant of put: a save of a run that did not start from the values the
\* checkpointer holds is dropped.
put_rejects_stale(cp, task_id, values) ==
    IF \/ cp[task_id] = None
       \/ /\ Len(cp[task_id][1].task_state.history) <= Len(values.task_state.history)
          /\ SubSeq(values.task_state.history, 1,
                    Len(cp[task_id][1].task_state.history)) =
                cp[task_id][1].task_state.history
    THEN [cp EXCEPT ![task_id] = Some(values)]
    ELSE cp

\* MemorySaver.put for the thread id of the task.
put(cp, task_id, values) == [cp EXCEPT ![task_id] = Some(values)]

\* invoke_graph_update up to the call of stream: the snapshot is loaded and
\* the input of the run is built from it.  Without a graph the call
\* returns None.
advance_begin(c, task_id, event_input) ==
    /\ advancing[c].pc \in {"idle", "returned"}
    /\ IF task_id \notin graphs
       THEN /\ advancing' = [advancing EXCEPT ![c] = NotAdvancing]
            /\ lastOp' = Observed("invoke_graph_update", Some(task_id), Absent,
                                   None, FALSE, 0)
       ELSE /\ (IF checkpoint[task_id] = None THEN 0
                ELSE Len(checkpoint[task_id][1].task_state.history)) + 3 <= MaxHistory
            /\ advancing' = [advancing EXCEPT ![c] =
                    Advancing("start_task", task_id, event_input, checkpoint[task_id],
                              final_input_for_stream(checkpoint[task_id], task_id,
                                                     event_input))]
            /\ UNCHANGED lastOp
    /\ UNCHANGED <<registered_agents, graphs, checkpoint, events_log, returned, last_put>>

\* One node of the run and the save that follows it.  An exception of the
\* node leaves the call.
advance_node(c) ==
    LET call == advancing[c]
    IN  /\ call.pc \in Nodes
        /\ LET output ==
                    IF call.pc = "start_task"
                    THEN [values |-> start_task_node(call.values), raised |-> FALSE]
                    ELSE IF call.pc = "process_request"
                    THEN LET processed == process_request_node(call.values)
                         IN  [values |-> [call.values EXCEPT
                                            !.task_state = processed.task_state],
                              raised |-> processed.raised]
                    ELSE [values |-> end_task_node(call.values), raised |-> FALSE]
                next == IF call.pc = "start_task" THEN "process_request"
                        ELSE IF call.pc = "process_request" THEN "custom_end_node"
                        ELSE "get_state"
           IN  IF output.raised
               THEN /\ advancing' = [advancing EXCEPT ![c] = NotAdvancing]
                    /\ lastOp' = Observed("invoke_graph_update", Some(call.task_id),
                                           Absent, None, TRUE, 0)
                    /\ UNCHANGED <<checkpoint, last_put>>
               ELSE /\ checkpoint' = put(checkpoint, call.task_id, output.values)
                    /\ last_put' = [last_put EXCEPT ![call.task_id] =
                            Some([snapshot |-> call.snapshot,
                                  event_input |-> call.event_input])]
                    /\ advancing' = [advancing EXCEPT ![c].pc = next,
                                                      ![c].values = output.values]
                    /\ UNCHANGED lastOp
        /\ UNCHANGED <<registered_agents, graphs, events_log, returned>>

\* The end of invoke_graph_update: the state the checkpointer holds by now
\* is returned.
advance_get_state(c) ==
    LET call == advancing[c]
    IN  /\ call.pc = "get_state"
        /\ returned' = [returned EXCEPT ![call.task_id] =
                            get_graph_state(graphs, checkpoint, call.task_id)]
        /\ advancing' = [advancing EXCEPT ![c].pc = "returned"]
        /\ UNCHANGED <<registered_agents, graphs, checkpoint, events_log, last_put,
                       lastOp>>

AdvanceNext ==
    \/ \E t \in AdvanceTaskIds :
            InitializeTaskGraph(t) /\ UNCHANGED advanceVars /\ UNCHANGED besidesAdvance
    \/ \E c \in AdvanceCallers, t \in AdvanceTaskIds, e \in AdvanceInputs :
            advance_begin(c, t, e) /\ UNCHANGED besidesAdvance
    \/ \E c \in AdvanceCallers : advance_node(c) /\ UNCHANGED besidesAdvance
    \/ \E c \in AdvanceCallers : advance_get_state(c) /\ UNCHANGED besidesAdvance

AdvanceSpec == Init /\ [][AdvanceNext]_vars

(***************************************************************************)
(* The bridge.  A submit and a worker run as threads; every action is one  *)
(* step of one thread between two accesses of the shared queue, cache,     *)
(* lock or thread table.                                                   *)
(***************************************************************************)

\* A request: what is handed to the external function, and the requests
\* whose submit had returned when the submit of this one began.
Request(payload, parameters, after) ==
    [payload |-> payload, parameters |-> parameters, after |-> after]

\* The requests whose submit has returned.
ReturnedSubmits ==
    {r \in 1..Len(requests) :
        \A c \in Callers : callers[c].request = r => callers[c].pc = "idle"}

NoParameters == OrderedDict(<<>>, <<>>)

\* BaseToolchainBridge._submit_request up to the put on the queue.
submit_request(c, payload) ==
    /\ bridge_class = "BaseToolchainBridge"
    /\ callers[c].pc = "idle"
    /\ Len(requests) < MaxRequests
    /\ requests' = Append(requests,
            Request(payload, NoParameters, ReturnedSubmits))
    /\ futures' = Append(futures, Pending)
    /\ request_queue' = Append(request_queue, Len(requests) + 1)
    /\ callers' = [callers EXCEPT ![c] = Caller("start_worker_if_needed", Len(requests) + 1)]
    /\ UNCHANGED <<bridge_class, result_cache, worker_thread, worker_lock, threads,
                   handle_calls>>

\* _start_worker_if_needed: the lock is taken and the test is made.
start_worker_if_needed_locked(c) ==
    /\ callers[c].pc = "start_worker_if_needed"
    /\ worker_lock = None
    /\ worker_lock' = Some(c)
    /\ callers' = [callers EXCEPT ![c].pc =
            IF worker_thread = None \/ ~is_alive(threads[worker_thread[1]])
            THEN "start_thread" ELSE "release"]
    /\ UNCHANGED <<bridge_class, request_queue, requests, futures, result_cache,
                   worker_thread, threads, handle_calls>>

\* _start_worker_if_needed: the thread is started if the test said so, the
\* lock is released and _submit_request returns the future.
start_worker_if_needed_release(c) ==
    /\ callers[c].pc \in {"start_thread", "release"}
    /\ IF callers[c].pc = "start_thread"
       THEN /\ threads' = Append(threads, Thread("get", 0))
            /\ worker_thread' = Some(Len(threads) + 1)
       ELSE UNCHANGED <<threads, worker_thread>>
    /\ worker_lock' = None
    /\ callers' = [callers EXCEPT ![c].pc = "idle"]
    /\ UNCHANGED <<bridge_class, request_queue, requests, futures, result_cache,
                   handle_calls>>

\* _process_request_queue: the get, which blocks while the queue is empty;
\* on the stop sentinel the loop is left and the thread ends.
process_request_queue_get(w) ==
    /\ bridge_class = "BaseToolchainBridge"
    /\ w <= Len(threads)
    /\ threads[w].pc = "get"
    /\ request_queue # <<>>
    /\ request_queue' = Tail(request_queue)
    /\ threads' = [threads EXCEPT ![w] =
            IF Head(request_queue) = StopSentinel THEN Thread("finished", 0)
            ELSE Thread("handle", Head(request_queue))]
    /\ UNCHANGED <<bridge_class, requests, futures, result_cache, worker_thread,
                   worker_lock, callers, handle_calls>>

\* Mutant of process_request_queue_handle: an exception of the external
\* function is logged and not set on the future.
process_request_queue_handle_drops(w, raises) ==
    /\ bridge_class = "BaseToolchainBridge"
    /\ w <= Len(threads)
    /\ threads[w].pc = "handle"
    /\ handle_calls' = Append(handle_calls, threads[w].request)
    /\ futures' = [futures EXCEPT ![threads[w].request] =
            IF raises THEN Pending ELSE Result(Len(handle_calls) + 1)]
    /\ threads' = [threads EXCEPT ![w] = Thread("get", 0)]
    /\ UNCHANGED <<bridge_class, request_queue, requests, result_cache, worker_thread,
                   worker_lock, callers>>

\* Mutant of process_request_queue_handle: an exception of the external
\* function leaves the loop and the thread ends.
process_request_queue_handle_unguarded(w, raises) ==
    /\ bridge_class = "BaseToolchainBridge"
    /\ w <= Len(threads)
    /\ threads[w].pc = "handle"
    /\ handle_calls' = Append(handle_calls, threads[w].request)
    /\ futures' = [futures EXCEPT ![threads[w].request] =
            IF raises THEN Exception(Len(handle_calls) + 1)
            ELSE Result(Len(handle_calls) + 1)]
    /\ threads' = [threads EXCEPT ![w] =
            IF raises THEN Thread("finished", 0) ELSE Thread("get", 0)]
    /\ UNCHANGED <<bridge_class, request_queue, requests, result_cache, worker_thread,
                   worker_lock, callers>>

\* _process_request_queue: _handle_specific_request is called; its result
\* or its exception is set on the future, and the loop goes on.
process_request_queue_handle(w, raises) ==
    /\ bridge_class = "BaseToolchainBridge"
    /\ w <= Len(threads)
    /\ threads[w].pc = "handle"
    /\ handle_calls' = Append(handle_calls, threads[w].request)
    /\ futures' = [futures EXCEPT ![threads[w].request] =
            IF raises THEN Exception(Len(handle_calls) + 1)
            ELSE Result(Len(handle_calls) + 1)]
    /\ threads' = [threads EXCEPT ![w] = Thread("get", 0)]
    /\ UNCHANGED <<bridge_class, request_queue, requests, result_cache, worker_thread,
                   worker_lock, callers>>

\* Mutant of cache_result: the cache holds the latest asset only.
cache_result_latest_only(cache, key, asset) == Put(<<>>, key, asset)

\* self.result_cache[cache_key] = result_asset
cache_result(cache, key, asset) == Put(cache, key, asset)

\* RetroDiffusionToolchainBridge.generate_asset up to the put on the queue:
\* a cache hit resolves the future and returns at once.
generate_asset(c, prompt, parameters) ==
    /\ bridge_class = "RetroDiffusionToolchainBridge"
    /\ callers[c].pc = "idle"
    /\ Len(requests) < MaxRequests
    /\ LET validated_parameters == validate_retro_diffusion_parameters(parameters)
           cache_key == generate_cache_key(prompt, validated_parameters)
       IN  /\ requests' = Append(requests,
                   Request(prompt, validated_parameters, ReturnedSubmits))
           /\ IF cache_key \in DOMAIN result_cache
              THEN /\ futures' = Append(futures, Result(result_cache[cache_key]))
                   /\ callers' = [callers EXCEPT ![c] = Caller("idle", Len(requests) + 1)]
                   /\ UNCHANGED request_queue
              ELSE /\ futures' = Append(futures, Pending)
                   /\ request_queue' = Append(request_queue, Len(requests) + 1)
                   /\ callers' = [callers EXCEPT ![c] =
                           Caller("process_queue", Len(requests) + 1)]
    /\ UNCHANGED <<bridge_class, result_cache, worker_thread, worker_lock, threads,
                   handle_calls>>

\* MuseToolchainBridge.send_command up to the put on the queue.
send_command(c, payload) ==
    /\ bridge_class = "MuseToolchainBridge"
    /\ callers[c].pc = "idle"
    /\ Len(requests) < MaxRequests
    /\ requests' = Append(requests,
            Request(payload, NoParameters, ReturnedSubmits))
    /\ futures' = Append(futures, Pending)
    /\ request_queue' = Append(request_queue, Len(requests) + 1)
    /\ callers' = [callers EXCEPT ![c] = Caller("process_queue", Len(requests) + 1)]
    /\ UNCHANGED <<bridge_class, result_cache, worker_thread, worker_lock, threads,
                   handle_calls>>

\* _process_generation_queue / _process_command_queue: a new thread is
\* started with worker as its target, and the submit returns the future.
process_queue(c) ==
    /\ callers[c].pc = "process_queue"
    /\ threads' = Append(threads, Thread("empty", 0))
    /\ callers' = [callers EXCEPT ![c].pc = "idle"]
    /\ UNCHANGED <<bridge_class, request_queue, requests, futures, result_cache,
                   worker_thread, worker_lock, handle_calls>>

\* worker: the loop test, while not queue.empty().
worker_empty(w) ==
    /\ w <= Len(threads)
    /\ threads[w].pc = "empty"
    /\ threads' = [threads EXCEPT ![w] =
            IF request_queue = <<>> THEN Thread("finished", 0) ELSE Thread("get", 0)]
    /\ UNCHANGED <<bridge_class, request_queue, requests, futures, result_cache,
                   worker_thread, worker_lock, callers, handle_calls>>

\* Mutant of worker_get: the request is read and left on the queue.
worker_get_leaves_request(w) ==
    /\ bridge_class \in ThreadPerSubmit
    /\ w <= Len(threads)
    /\ threads[w].pc = "get"
    /\ request_queue # <<>>
    /\ threads' = [threads EXCEPT ![w] = Thread("handle", Head(request_queue))]
    /\ UNCHANGED <<bridge_class, request_queue, requests, futures, result_cache,
                   worker_thread, worker_lock, callers, handle_calls>>

\* worker: queue.get(), which blocks while the queue is empty.
worker_get(w) ==
    /\ bridge_class \in ThreadPerSubmit
    /\ w <= Len(threads)
    /\ threads[w].pc = "get"
    /\ request_queue # <<>>
    /\ request_queue' = Tail(request_queue)
    /\ threads' = [threads EXCEPT ![w] = Thread("handle", Head(request_queue))]
    /\ UNCHANGED <<bridge_class, requests, futures, result_cache, worker_thread,
                   worker_lock, callers, handle_calls>>

\* Mutant of generation_worker_handle: what the call of the pipeline ended
\* with is cached, an exception as well as an asset.
generation_worker_handle_caches_failure(w, raises) ==
    /\ bridge_class = "RetroDiffusionToolchainBridge"
    /\ w <= Len(threads)
    /\ threads[w].pc = "handle"
    /\ handle_calls' = Append(handle_calls, threads[w].request)
    /\ result_cache' = cache_result(result_cache,
            generate_cache_key(requests[threads[w].request].payload,
                               requests[threads[w].request].parameters),
            Len(handle_calls) + 1)
    /\ futures' = [futures EXCEPT ![threads[w].request] =
            IF raises THEN Exception(Len(handle_calls) + 1)
            ELSE Result(Len(handle_calls) + 1)]
    /\ threads' = [threads EXCEPT ![w] = Thread("empty", 0)]
    /\ UNCHANGED <<bridge_class, request_queue, requests, worker_thread, worker_lock,
                   callers>>

\* The worker of RetroDiffusionToolchainBridge: pipeline.generate_asset is
\* called; its asset is cached and set on the future, or its exception is
\* set on the future.
generation_worker_handle(w, raises) ==
    /\ bridge_class = "RetroDiffusionToolchainBridge"
    /\ w <= Len(threads)
    /\ threads[w].pc = "handle"
    /\ handle_calls' = Append(handle_calls, threads[w].request)
    /\ IF raises
       THEN /\ futures' = [futures EXCEPT ![threads[w].request] =
                    Exception(Len(handle_calls) + 1)]
            /\ UNCHANGED result_cache
       ELSE /\ result_cache' = cache_result(result_cache,
                    generate_cache_key(requests[threads[w].request].payload,
                                       requests[threads[w].request].parameters),
                    Len(handle_calls) + 1)
            /\ futures' = [futures EXCEPT ![threads[w].request] =
                    Result(Len(handle_calls) + 1)]
    /\ threads' = [threads EXCEPT ![w] = Thread("empty", 0)]
    /\ UNCHANGED <<bridge_class, request_queue, requests, worker_thread, worker_lock,
                   callers>>

\* The worker of MuseToolchainBridge: _send_to_unity and the response
\* handler are called; the result or the exception is set on the future.
command_worker_handle(w, raises) ==
    /\ bridge_class = "MuseToolchainBridge"
    /\ w <= Len(threads)
    /\ threads[w].pc = "handle"
    /\ handle_calls' = Append(handle_calls, threads[w].request)
    /\ futures' = [futures EXCEPT ![threads[w].request] =
            IF raises THEN Exception(Len(handle_calls) + 1)
            ELSE Result(Len(handle_calls) + 1)]
    /\ threads' = [threads EXCEPT ![w] = Thread("empty", 0)]
    /\ UNCHANGED <<bridge_class, request_queue, requests, result_cache, worker_thread,
                   worker_lock, callers>>

Payloads == {"ASSEMBLE_SCENE"}

\* The worker threads there can be: every submit starts one at most.
Threads == 1..MaxRequests

\* A bridge of any of the classes, without the StateManager.
BridgeInit ==
    /\ StateManagerConstructed
    /\ \E cls \in BridgeClasses : BridgeConstructed(cls)
    /\ CollaborationManagerConstructed
    /\ NoNodeCalled
    /\ NoAdvance
    /\ AgentEventBusConstructed
    /\ NoAgentsNoBridges

\* One step of caller c in a submit; generate_asset is called with one of
\* the given parameter dicts.
CallerStep(c, parameter_dicts) ==
    \/ (\E payload \in Payloads : submit_request(c, payload)) /\ UNCHANGED besidesBridge
    \/ start_worker_if_needed_locked(c) /\ UNCHANGED besidesBridge
    \/ start_worker_if_needed_release(c) /\ UNCHANGED besidesBridge
    \/ (\E prompt \in Prompts, parameters \in parameter_dicts :
            generate_asset(c, prompt, parameters)) /\ UNCHANGED besidesBridge
    \/ (\E payload \in Payloads : send_command(c, payload)) /\ UNCHANGED besidesBridge
    \/ process_queue(c) /\ UNCHANGED besidesBridge

\* One step of worker thread w.
WorkerStep(w) ==
    \/ process_request_queue_get(w) /\ UNCHANGED besidesBridge
    \/ (\E raises \in BOOLEAN : process_request_queue_handle(w, raises))
            /\ UNCHANGED besidesBridge
    \/ worker_empty(w) /\ UNCHANGED besidesBridge
    \/ worker_get(w) /\ UNCHANGED besidesBridge
    \/ (\E raises \in BOOLEAN : generation_worker_handle(w, raises))
            /\ UNCHANGED besidesBridge
    \/ (\E raises \in BOOLEAN : command_worker_handle(w, raises))
            /\ UNCHANGED besidesBridge

BridgeNext ==
    \/ \E c \in Callers : CallerStep(c, ParameterDicts)
    \/ \E w \in Threads : WorkerStep(w)

BridgeSpec == BridgeInit /\ [][BridgeNext]_vars

\* The steps of caller c after its submit has begun.
CallerContinue(c) ==
    \/ start_worker_if_needed_locked(c) /\ UNCHANGED besidesBridge
    \/ start_worker_if_needed_release(c) /\ UNCHANGED besidesBridge
    \/ process_queue(c) /\ UNCHANGED besidesBridge

\* The bridge under a fair scheduler: a thread that can take a step takes
\* one in the end.  When a caller begins a submit is up to the caller.
\* The parameter dicts that validate to the parameters of the first one:
\* every generate_asset has the same cache key.
SameKeyDicts ==
    {d \in ParameterDicts :
        validate_retro_diffusion_parameters(d) =
            validate_retro_diffusion_parameters(
                OrderedDict(<<"tileable", "animation_frames">>,
                            [tileable |-> TRUE, animation_frames |-> 2]))}

BridgeFairNext ==
    \/ \E c \in Callers : CallerStep(c, SameKeyDicts)
    \/ \E w \in Threads : WorkerStep(w)

BridgeFairSpec ==
    /\ BridgeInit
    /\ [][BridgeFairNext]_vars
    /\ WF_vars(\E c \in Callers : CallerContinue(c))
    /\ WF_vars(\E w \in Threads : WorkerStep(w))

(***************************************************************************)
(* Properties.                                                             *)
(***************************************************************************)

\* The checkpointer holds a state for thread t.
Persisted(t) == checkpoint[t] # None
\* The ManagedTaskState the checkpointer holds for thread t.
TaskState(t) == checkpoint[t][1].task_state

IsPrefix(s, t) == Len(s) <= Len(t) /\ SubSeq(t, 1, Len(s)) = s

\* The steps of a history that are start_task or end_task, in order.
RECURSIVE StartEndSteps(_)
StartEndSteps(h) ==
    IF h = <<>> THEN <<>>
    ELSE IF Head(h).step \in {"start_task", "end_task"}
         THEN <<Head(h).step>> \o StartEndSteps(Tail(h))
         ELSE StartEndSteps(Tail(h))

HasStep(h, step) == \E i \in 1..Len(h) : h[i].step = step

\* C1: right after an accepted request_action (create_task), the TaskState
\* that get_task_status reads for the new task has run through end_task:
\* its status is completed, error or in_progress, never pending, and its
\* current_step is "completed".
C1_FirstAdvanceRunsToEnd ==
    (lastOp.op = "request_action" /\ lastOp.status_code = 202) =>
        LET read == get_graph_state(graphs, checkpoint, lastOp.task_id[1])
        IN  /\ read # None
            /\ read[1].status \in {"completed", "error", "in_progress"}
            /\ read[1].current_step = "completed"

C1_Witness ==
    /\ lastOp.op = "request_action"
    /\ lastOp.status_code = 202
    /\ Persisted(lastOp.task_id[1])
    /\ TaskState(lastOp.task_id[1]).status = "completed"
    /\ HasStep(TaskState(lastOp.task_id[1]).history, "end_task")

\* C2: once the checkpointed status of a task is completed or error, no
\* later step leaves a checkpoint for that task whose status is in_progress
\* or pending.
C2_StatusOnlyMovesForward ==
    [][\A t \in TaskIds :
        (Persisted(t) /\ TaskState(t).status \in {"completed", "error"}) =>
            /\ checkpoint'[t] # None
            /\ checkpoint'[t][1].task_state.status \notin {"in_progress", "pending"}]_vars

\* C3: the history stored in the checkpoint before any step is a prefix of
\* the history stored after it.
C3_HistoryAppendOnly ==
    [][\A t \in TaskIds :
        Persisted(t) =>
            /\ checkpoint'[t] # None
            /\ IsPrefix(TaskState(t).history, checkpoint'[t][1].task_state.history)]_vars

C3_Witness ==
    \E t \in TaskIds :
        /\ Persisted(t)
        /\ Len(TaskState(t).history) = 6
        /\ TaskState(t).history[4].step = "start_task"
        /\ TaskState(t).history[2] # TaskState(t).history[5]

AdvanceOps == {"invoke_graph_update", "request_action", "post_event"}

\* C4: initialize_task_graph returns the pristine TaskState of the given
\* task id (status pending, current_step "initial", empty history) and
\* leaves the checkpointer as it was; a checkpoint for a task id first
\* appears in a step that advances that id, and as long as there is none
\* get_graph_state returns None for it.
C4_InitializeIsPristine ==
    [][/\ lastOp'.op = "initialize_task_graph" =>
            /\ checkpoint' = checkpoint
            /\ lastOp'.result = Some(
                    [task_id |-> lastOp'.task_id[1], current_step |-> "initial",
                     status |-> "pending", history |-> <<>>,
                     agent_responses |-> <<>>, error_info |-> None])
       /\ \A t \in TaskIds :
            /\ (checkpoint[t] = None /\ checkpoint'[t] # None) =>
                    (lastOp'.op \in AdvanceOps /\ lastOp'.task_id = Some(t))
            /\ checkpoint'[t] = None =>
                    get_graph_state(graphs', checkpoint', t) = None]_vars

C4_Witness ==
    /\ lastOp.op = "initialize_task_graph"
    /\ lastOp.task_id[1] \in graphs
    /\ lastOp.result[1].status = "pending"
    /\ ~Persisted(lastOp.task_id[1])
    /\ get_graph_state(graphs, checkpoint, lastOp.task_id[1]) = None

\* C5: as long as no other advance has run on a task id since an advance on
\* it returned a TaskState, get_graph_state for that id returns a TaskState
\* equal to the returned one in every field.
C5_ReadAfterWrite ==
    \A t \in TaskIds :
        returned[t] # None => get_graph_state(graphs, checkpoint, t) = returned[t]

C5_Witness ==
    /\ lastOp.op = "get_graph_state"
    /\ lastOp.result # None
    /\ lastOp.result = returned[lastOp.task_id[1]]
    /\ Len(lastOp.result[1].history) = 6

\* C6: when the latest advance on a task id has completed, the start_task and
\* end_task entries of its history alternate start_task, end_task, ... in
\* call order, one pair for each advance, so there are as many of the one as
\* of the other.
C6_StartEndAlternate ==
    \A t \in TaskIds :
        (returned[t] # None /\ Persisted(t)) =>
            LET steps == StartEndSteps(TaskState(t).history)
            IN  /\ Len(steps) % 2 = 0
                /\ \A i \in 1..Len(steps) :
                        steps[i] = IF i % 2 = 1 THEN "start_task" ELSE "end_task"

C8_RejectedRequestCreatesNoTask ==
    [][(lastOp'.op = "request_action" /\ lastOp'.agent_id \notin registered_agents) =>
        /\ lastOp'.status_code = 404
        /\ lastOp'.task_id = None
        /\ graphs' = graphs
        /\ checkpoint' = checkpoint
        /\ \A t \in TaskIds :
                get_graph_state(graphs', checkpoint', t)
                    = get_graph_state(graphs, checkpoint, t)]_vars

C8_Witness ==
    /\ lastOp.op = "request_action"
    /\ lastOp.status_code = 404
    /\ lastOp.agent_id \notin registered_agents
    /\ graphs = {}
    /\ \A t \in TaskIds : get_graph_state(graphs, checkpoint, t) = None

\* C9: after an accepted request_action whose target agent's process_task
\* raises, the persisted TaskState has status "error", an error_info, and a
\* dispatch_to_agent entry in its history.
C9_DispatchFailureIsolated ==
    (/\ lastOp.op = "request_action"
     /\ lastOp.status_code = 202
     /\ process_task(lastOp.agent_id) = "raises") =>
        /\ Persisted(lastOp.task_id[1])
        /\ TaskState(lastOp.task_id[1]).status = "error"
        /\ TaskState(lastOp.task_id[1]).error_info # None
        /\ HasStep(TaskState(lastOp.task_id[1]).history, "dispatch_to_agent")

\* C10: no exception raised inside a node leaves invoke_graph_update: every
\* call on a task with a graph returns to its caller with the TaskState that
\* is persisted, which a following get_graph_state reads.
C10_NoExceptionEscapesAdvance ==
    (lastOp.op = "invoke_graph_update" /\ lastOp.task_id[1] \in graphs) =>
        /\ ~lastOp.raised
        /\ lastOp.result # None
        /\ lastOp.result = get_graph_state(graphs, checkpoint, lastOp.task_id[1])

\* C11: invoke_graph_update for a task id that was never passed to
\* initialize_task_graph returns None without raising and changes nothing:
\* the set of graphs and the checkpointer are as before, and get_graph_state
\* for that id still returns None.
C11_UnknownTaskAdvanceIsNoOp ==
    [][\A t \in TaskIds :
        (/\ lastOp'.op = "invoke_graph_update"
         /\ lastOp'.task_id = Some(t)
         /\ t \notin graphs) =>
            /\ lastOp'.result = None
            /\ ~lastOp'.raised
            /\ graphs' = graphs
            /\ checkpoint' = checkpoint
            /\ get_graph_state(graphs', checkpoint', t) = None]_vars

C11_Witness ==
    /\ lastOp.op = "invoke_graph_update"
    /\ lastOp.task_id[1] \notin graphs
    /\ lastOp.result = None
    /\ graphs # {}
    /\ \E t \in graphs : Persisted(t)

HandleIndex(r) ==
    IF \E i \in 1..Len(handle_calls) : handle_calls[i] = r
    THEN CHOOSE i \in 1..Len(handle_calls) : handle_calls[i] = r
    ELSE 0

\* Request r was put on the queue (a cache hit is not).
Enqueued(r) == futures[r].state = "pending" \/ HandleIndex(r) # 0

LiveThreads == {w \in 1..Len(threads) : is_alive(threads[w])}

CacheKey(r) == generate_cache_key(requests[r].payload, requests[r].parameters)

\* C13: when the external function is invoked for a request R2, it has been
\* invoked before for every enqueued request R1 whose submit had returned
\* when the submit of R2 began.
C13_HandledInSubmitOrder ==
    \A r2 \in 1..Len(requests) :
        HandleIndex(r2) # 0 =>
            \A r1 \in requests[r2].after :
                Enqueued(r1) =>
                    /\ HandleIndex(r1) # 0
                    /\ HandleIndex(r1) < HandleIndex(r2)

\* C14: under fair scheduling every request whose submit has begun has its
\* future resolved in the end, with a result or with an exception.
C14_EveryRequestResolved ==
    \A r \in 1..MaxRequests :
        (Len(requests) >= r) ~> (Len(futures) >= r /\ futures[r].state # "pending")

C14_Witness ==
    /\ Len(requests) = MaxRequests
    /\ \A r \in 1..Len(requests) : futures[r].state # "pending"
    /\ \E r \in 1..Len(requests) : futures[r].state = "exception"
    /\ \E r \in 1..Len(requests) : futures[r].state = "result"
    /\ \E c1 \in Callers, c2 \in Callers : c1 # c2 /\ callers[c1].request = 1
                                          /\ callers[c2].request = 2

\* C15: at every moment the bridge has at most one live worker thread.
C15_AtMostOneLiveWorker == Cardinality(LiveThreads) <= 1

\* C16: in a step in which the external function raises for a request, the
\* exception is set on the future of that request and on no other, no
\* worker thread ends, the worker is back at the head of its loop, and the
\* requests behind stay on the queue for it.
C16_HandleExceptionIsCaptured ==
    [][\A r \in 1..Len(requests) :
        (/\ handle_calls' = Append(handle_calls, r)
         /\ futures'[r].state # "result") =>
            /\ futures[r].state = "pending"
            /\ futures'[r].state = "exception"
            /\ \A r2 \in (1..Len(requests)) \ {r} : futures'[r2] = futures[r2]
            /\ \A w \in 1..Len(threads) :
                /\ is_alive(threads[w]) => is_alive(threads'[w])
                /\ threads[w].request = r => threads'[w].pc \in {"get", "empty"}
            /\ request_queue' = request_queue]_vars

\* A request behind one whose handling raised was handled by the same
\* single worker, which still lives.
C16_Witness ==
    /\ bridge_class = "BaseToolchainBridge"
    /\ Len(threads) = 1
    /\ is_alive(threads[1])
    /\ \E r1 \in 1..Len(requests), r2 \in 1..Len(requests) :
        /\ futures[r1].state = "exception"
        /\ futures[r2].state = "result"
        /\ HandleIndex(r1) # 0
        /\ HandleIndex(r1) < HandleIndex(r2)

\* C17: two generate_asset calls with the same canonical key, whose futures
\* both hold a result, hold the same asset, and the pipeline was invoked for
\* one of the two at most.
C17_SameKeySameAsset ==
    bridge_class = "RetroDiffusionToolchainBridge" =>
        \A r1 \in 1..Len(requests), r2 \in 1..Len(requests) :
            (/\ r1 # r2
             /\ CacheKey(r1) = CacheKey(r2)
             /\ futures[r1].state = "result"
             /\ futures[r2].state = "result") =>
                /\ futures[r1].value = futures[r2].value
                /\ HandleIndex(r1) = 0 \/ HandleIndex(r2) = 0

\* C18: a key of the result cache before a step is a key of it after the
\* step.
C18_CacheOnlyGrows ==
    [][\A key \in DOMAIN result_cache : key \in DOMAIN result_cache']_vars

C18_Witness ==
    /\ Cardinality(DOMAIN result_cache) = 2
    /\ \A r \in 1..Len(requests) :
        futures[r].state = "result" /\ result_cache[CacheKey(r)] = futures[r].value

(***************************************************************************)
(* The CollaborationManager.  Its methods run on one event loop: a call    *)
(* runs without interruption up to its await or its return.                *)
(***************************************************************************)

\* The loop of request_assistance over registered_agents.items(): the id of
\* the first profile, the requester skipped, that has the capability and is
\* idle; None if the loop ends without a break.
RECURSIVE first_suitable(_, _, _)
first_suitable(agents, requesting_agent_id, required_capability) ==
    IF agents = <<>> THEN None
    ELSE IF Head(agents).agent_id = requesting_agent_id
         THEN first_suitable(Tail(agents), requesting_agent_id, required_capability)
         ELSE IF /\ required_capability \in Head(agents).capabilities
                 /\ Head(agents).status = "idle"
              THEN Some(Head(agents).agent_id)
              ELSE first_suitable(Tail(agents), requesting_agent_id, required_capability)

\* Mutant of suitable_assisting_agent: the status of the profile is not
\* looked at.
suitable_assisting_agent_any_status(agents, requesting_agent_id, required_capability) ==
    first_suitable([i \in 1..Len(agents) |-> [agents[i] EXCEPT !.status = "idle"]],
                   requesting_agent_id, required_capability)

suitable_assisting_agent(agents, requesting_agent_id, required_capability) ==
    first_suitable(agents, requesting_agent_id, required_capability)

\* CollaborationManager.update_agent_status on the given profiles.
update_agent_status(agents, agent_id, status, current_task_id) ==
    [i \in 1..Len(agents) |->
        IF agents[i].agent_id = agent_id
        THEN [agents[i] EXCEPT !.status = status, !.current_task_id = current_task_id]
        ELSE agents[i]]

\* CollaborationManager.register_agent: a new profile, idle and without a
\* task, is bound to the id; an id that is bound already keeps its place.
CollaborationManager_register_agent(agent_id, capabilities) ==
    /\ agent_profiles' =
            IF Registered(agent_profiles, agent_id)
            THEN [i \in 1..Len(agent_profiles) |->
                    IF agent_profiles[i].agent_id = agent_id
                    THEN AgentProfile(agent_id, capabilities, None, "idle")
                    ELSE agent_profiles[i]]
            ELSE Append(agent_profiles, AgentProfile(agent_id, capabilities, None, "idle"))
    /\ collabOp' = CollabObserved("returned", TRUE, None)
    /\ UNCHANGED <<pending_assistance_requests, dispatching, clock>>

UpdateAgentStatus(agent_id, status, current_task_id) ==
    /\ agent_profiles' = update_agent_status(agent_profiles, agent_id, status,
                                             current_task_id)
    /\ collabOp' = CollabObserved("returned", TRUE, None)
    /\ UNCHANGED <<pending_assistance_requests, dispatching, clock>>

\* request_assistance up to its return of None or to its await: the
\* request is created, bound to its request_id and left pending_dispatch.
\* A request that was bound to the id before is bound no more.
request_assistance(requesting_agent_id, original_task_id, required_capability) ==
    LET suitable_assisting_agent_id ==
            suitable_assisting_agent(agent_profiles, requesting_agent_id,
                                     required_capability)
        assistance_request ==
            TaskAssistanceRequest(<<original_task_id, clock>>, "pending_dispatch",
                                  suitable_assisting_agent_id[1])
    IN  IF \/ ~Registered(agent_profiles, requesting_agent_id)
           \/ ~TruthyId(suitable_assisting_agent_id)
        THEN /\ collabOp' = CollabObserved("request_assistance", TRUE, None)
             /\ UNCHANGED <<agent_profiles, pending_assistance_requests, dispatching,
                            clock>>
        ELSE /\ Len(dispatching) < MaxInFlight
             /\ pending_assistance_requests' =
                    Put(pending_assistance_requests, assistance_request.request_id,
                        assistance_request)
             /\ dispatching' = Append(
                    [k \in 1..Len(dispatching) |->
                        IF dispatching[k].request_id = assistance_request.request_id
                        THEN [dispatching[k] EXCEPT !.is_bound = FALSE]
                        ELSE dispatching[k]],
                    Dispatching(assistance_request, TRUE))
             /\ collabOp' = CollabObserved("request_assistance", FALSE, None)
             /\ UNCHANGED <<agent_profiles, clock>>

\* request_assistance after its await: the request it created becomes
\* dispatched_to_mcp, the assisting agent processing_task, and the
\* request_id is returned.
request_assistance_resumed(k) ==
    /\ k <= Len(dispatching)
    /\ pending_assistance_requests' =
            IF dispatching[k].is_bound
            THEN [pending_assistance_requests EXCEPT
                    ![dispatching[k].request_id].status = "dispatched_to_mcp"]
            ELSE pending_assistance_requests
    /\ agent_profiles' = update_agent_status(agent_profiles,
            dispatching[k].suitable_assisting_agent_id,
            "processing_task", Some("mcp_subtask"))
    /\ dispatching' = SubSeq(dispatching, 1, k - 1)
                        \o SubSeq(dispatching, k + 1, Len(dispatching))
    /\ collabOp' = CollabObserved("request_assistance_resumed", TRUE,
                                  Some(dispatching[k].request_id))
    /\ UNCHANGED clock

TerminalStatuses == {"completed", "failed", "rejected"}

\* Mutant of update_assistance_request_status: the assisting agent is made
\* idle whatever the new status is.
update_assistance_request_status_always_reverts(request_id, status) ==
    /\ IF request_id \in DOMAIN pending_assistance_requests
       THEN LET req == pending_assistance_requests[request_id]
            IN  /\ pending_assistance_requests' =
                        [pending_assistance_requests EXCEPT ![request_id].status = status]
                /\ agent_profiles' =
                        update_agent_status(agent_profiles,
                            req.assigned_assisting_agent_id, "idle", None)
       ELSE UNCHANGED <<pending_assistance_requests, agent_profiles>>
    /\ collabOp' = CollabObserved("update_assistance_request_status", TRUE, None)
    /\ UNCHANGED <<dispatching, clock>>

update_assistance_request_status(request_id, status) ==
    /\ IF request_id \in DOMAIN pending_assistance_requests
       THEN LET req == pending_assistance_requests[request_id]
            IN  /\ pending_assistance_requests' =
                        [pending_assistance_requests EXCEPT ![request_id].status = status]
                /\ agent_profiles' =
                        IF /\ status \in TerminalStatuses
                           /\ TruthyId(Some(req.assigned_assisting_agent_id))
                        THEN update_agent_status(agent_profiles,
                                req.assigned_assisting_agent_id, "idle", None)
                        ELSE agent_profiles
       ELSE UNCHANGED <<pending_assistance_requests, agent_profiles>>
    /\ collabOp' = CollabObserved("update_assistance_request_status", TRUE, None)
    /\ UNCHANGED <<dispatching, clock>>

\* A second passes.
Tick ==
    /\ clock + 1 \in Seconds
    /\ clock' = clock + 1
    /\ UNCHANGED <<agent_profiles, pending_assistance_requests, dispatching, collabOp>>

RequestIds == OriginalTaskIds \X Seconds

\* The statuses the callers report: a terminal one and one that is not.
StatusUpdates == {"completed", "dispatched_to_mcp"}

\* The suspended calls there can be.
InFlight == 1..MaxInFlight

\* The agents that report themselves busy; every agent reports itself idle.
BusyAgentIds == {"B"}

CollabNext ==
    \/ \E a \in CollabAgentIds :
            CollaborationManager_register_agent(a, CapabilitiesOf(a))
                /\ UNCHANGED besidesCollaboration
    \/ \E a \in BusyAgentIds :
            UpdateAgentStatus(a, "processing_task", Some("mcp_subtask"))
                /\ UNCHANGED besidesCollaboration
    \/ \E a \in CollabAgentIds :
            UpdateAgentStatus(a, "idle", None) /\ UNCHANGED besidesCollaboration
    \/ \E a \in CollabAgentIds, t \in OriginalTaskIds, x \in Capabilities :
            request_assistance(a, t, x) /\ UNCHANGED besidesCollaboration
    \/ \E k \in InFlight :
            request_assistance_resumed(k) /\ UNCHANGED besidesCollaboration
    \/ \E id \in RequestIds, status \in StatusUpdates :
            update_assistance_request_status(id, status)
                /\ UNCHANGED besidesCollaboration
    \/ Tick /\ UNCHANGED besidesCollaboration

CollabSpec == Init /\ [][CollabNext]_vars

(***************************************************************************)
(* Properties of the CollaborationManager.                                 *)
(***************************************************************************)

\* The places in registered_agents of the profiles, other than the
\* requester's, that have the capability and are idle.
Candidates(requesting_agent_id, required_capability) ==
    {i \in 1..Len(agent_profiles) :
        /\ agent_profiles[i].agent_id # requesting_agent_id
        /\ required_capability \in agent_profiles[i].capabilities
        /\ agent_profiles[i].status = "idle"}

First(S) == CHOOSE i \in S : \A j \in S : i <= j

\* C19: a request_assistance call of a registered requester, with an idle
\* agent other than the requester that has the capability, creates an
\* assistance request assigned to the first such agent in registration
\* order.
C19_FirstIdleCapableAgentSelected ==
    [][\A a \in CollabAgentIds, t \in OriginalTaskIds, x \in Capabilities :
        (/\ collabOp'.op = "request_assistance"
         /\ request_assistance(a, t, x)
         /\ Registered(agent_profiles, a)
         /\ Candidates(a, x) # {}) =>
            /\ Len(dispatching') = Len(dispatching) + 1
            /\ <<t, clock>> \in DOMAIN pending_assistance_requests'
            /\ pending_assistance_requests'[<<t, clock>>].assigned_assisting_agent_id =
                    agent_profiles[First(Candidates(a, x))].agent_id]_vars

\* C20: a request_assistance call of an unregistered requester, or without
\* an idle agent other than the requester that has the capability, returns
\* None and leaves the agent profiles, the assistance requests and the
\* calls in flight as they were.
C20_NoCandidateReturnsNone ==
    [][\A a \in CollabAgentIds, t \in OriginalTaskIds, x \in Capabilities :
        (/\ collabOp'.op = "request_assistance"
         /\ request_assistance(a, t, x)
         /\ ~Registered(agent_profiles, a) \/ Candidates(a, x) = {}) =>
            /\ collabOp' = CollabObserved("request_assistance", TRUE, None)
            /\ agent_profiles' = agent_profiles
            /\ pending_assistance_requests' = pending_assistance_requests
            /\ dispatching' = dispatching]_vars

\* A registered requester is turned down while the agents with the
\* capability are busy, one of them with an earlier assistance request.
C20_Witness ==
    /\ collabOp = CollabObserved("request_assistance", TRUE, None)
    /\ \E a \in CollabAgentIds :
        /\ Registered(agent_profiles, a)
        /\ Candidates(a, "x") = {}
        /\ \E i \in 1..Len(agent_profiles) :
            /\ agent_profiles[i].agent_id # a
            /\ "x" \in agent_profiles[i].capabilities
            /\ agent_profiles[i].status = "processing_task"
            /\ \E id \in DOMAIN pending_assistance_requests :
                /\ pending_assistance_requests[id].assigned_assisting_agent_id =
                        agent_profiles[i].agent_id
                /\ pending_assistance_requests[id].status = "dispatched_to_mcp"

\* The status of the profile registered under agent_id.
StatusOf(agents, agent_id) ==
    LET i == CHOOSE i \in 1..Len(agents) : agents[i].agent_id = agent_id
    IN  agents[i].status

\* C21: a request_assistance call that succeeds returns a request id under
\* which the request it created is recorded with the selected agent as its
\* assisting agent, makes that agent processing_task and leaves the profile
\* of every other agent as it was.
C21_SuccessRecordsAndMarksAssistant ==
    [][\A k \in InFlight :
        (/\ collabOp'.op = "request_assistance_resumed"
         /\ request_assistance_resumed(k)) =>
            LET id == dispatching[k].request_id
                selected == dispatching[k].suitable_assisting_agent_id
            IN  /\ collabOp'.result = Some(id)
                /\ id \in DOMAIN pending_assistance_requests'
                /\ pending_assistance_requests'[id].assigned_assisting_agent_id = selected
                /\ StatusOf(agent_profiles', selected) = "processing_task"
                /\ Len(agent_profiles') = Len(agent_profiles)
                /\ \A i \in 1..Len(agent_profiles) :
                        agent_profiles[i].agent_id # selected =>
                            agent_profiles'[i] = agent_profiles[i]]_vars

C23_DuplicateRegistrationRejected ==
    [][\A a \in CollabAgentIds :
        (/\ collabOp'.op = "returned"
         /\ CollaborationManager_register_agent(a, CapabilitiesOf(a))
         /\ Registered(agent_profiles, a)) =>
            agent_profiles' = agent_profiles]_vars

(***************************************************************************)
(* Properties of the nodes and of an advance.                              *)
(***************************************************************************)

AgentResponses(cp, task_id) ==
    IF cp[task_id] = None THEN <<>> ELSE cp[task_id][1].task_state.agent_responses

\* C27: an advance on an existing task whose input carries the status an
\* agent reports returns a task state that has the agent's entry, with that
\* status, in agent_responses, and whose status is "error" when the agent
\* reports "failed" and "completed" when it reports
\* "completed_successfully".
C27_AgentStatusMappedOntoTask ==
    [][\A t \in TaskIds, d \in EventDicts :
        (/\ lastOp'.op = "invoke_graph_update"
         /\ t \in graphs
         /\ d.status \in {"failed", "completed_successfully"}
         /\ InvokeGraphUpdate(t, Some(d))) =>
            /\ returned'[t] # None
            /\ returned'[t][1].status =
                    IF d.status = "failed" THEN "error" ELSE "completed"
            /\ d.source_agent_id \in DOMAIN returned'[t][1].agent_responses
            /\ returned'[t][1].agent_responses[d.source_agent_id].status = d.status]_vars

\* C28: after an advance whose input names target_agent_id a, or names
\* none, which stands for "unknown_agent", agent_responses holds under a
\* the entry the advance wrote, {"status": "dispatched"}, and under every
\* other agent what it held before.
C28_AgentResponsesLastKnownValue ==
    [][\A t \in TaskIds, e \in EventInputs :
        (/\ lastOp'.op = "invoke_graph_update"
         /\ t \in graphs
         /\ InvokeGraphUpdate(t, e)
         /\ ~lastOp'.raised) =>
            LET input_data == IF e = None THEN EmptyDict ELSE e[1]
                a == IF input_data.target_agent_id = Absent
                     THEN "unknown_agent" ELSE input_data.target_agent_id
                before == AgentResponses(checkpoint, t)
                after == AgentResponses(checkpoint', t)
            IN  /\ DOMAIN after = DOMAIN before \cup {a}
                /\ after[a] = Response(Absent, "dispatched", None)
                /\ \A b \in DOMAIN before \ {a} : after[b] = before[b]
                /\ returned'[t] = Some(checkpoint'[t][1].task_state)]_vars

\* C28, amended: the input of an advance is its event_input or, when that
\* is None and the task has a checkpoint, the input_data of the checkpoint.
\* After an advance whose input names target_agent_id a, or names none,
\* which stands for "unknown_agent", agent_responses holds under a the
\* entry the advance wrote, {"status": "dispatched"}, and under every other
\* agent what it held before.
C28_LastKnownValueOfEffectiveInput ==
    [][\A t \in TaskIds, e \in EventInputs :
        (/\ lastOp'.op = "invoke_graph_update"
         /\ t \in graphs
         /\ InvokeGraphUpdate(t, e)
         /\ ~lastOp'.raised) =>
            LET input_data == IF e # None THEN e[1]
                              ELSE IF checkpoint[t] = None THEN EmptyDict
                              ELSE checkpoint[t][1].input_data
                a == IF input_data.target_agent_id = Absent
                     THEN "unknown_agent" ELSE input_data.target_agent_id
                before == AgentResponses(checkpoint, t)
                after == AgentResponses(checkpoint', t)
            IN  /\ DOMAIN after = DOMAIN before \cup {a}
                /\ after[a] = Response(Absent, "dispatched", None)
                /\ \A b \in DOMAIN before \ {a} : after[b] = before[b]
                /\ returned'[t] = Some(checkpoint'[t][1].task_state)]_vars

\* A second advance on a task has written the entry of "unknown_agent" and
\* the entry of the agent the first advance named is still there.
C28_Witness ==
    \E t \in TaskIds :
        /\ lastOp.op = "invoke_graph_update"
        /\ lastOp.task_id = Some(t)
        /\ ~lastOp.raised
        /\ Persisted(t)
        /\ DOMAIN TaskState(t).agent_responses = {"pixel_forge", "unknown_agent"}
        /\ Len(TaskState(t).history) = 6
        /\ TaskState(t).history[5].agent_id = "N/A"

\* The calls that are between their load of the snapshot of task t and
\* their return.
InAdvance(t) ==
    {c \in AdvanceCallers : advancing[c].pc \notin {"idle", "returned"}
                              /\ advancing[c].task_id = t}

\* C29: once the calls of invoke_graph_update for a task have finished,
\* the checkpoint of the task is the state that the call that saved last
\* has computed from the snapshot it had loaded and from its own input,
\* whatever the calls that overlapped with it have saved.
C29_LastCheckpointWriteWins ==
    \A t \in TaskIds :
        (InAdvance(t) = {} /\ last_put[t] # None) =>
            checkpoint[t] =
                Some(stream(final_input_for_stream(last_put[t][1].snapshot, t,
                                                   last_put[t][1].event_input),
                            FALSE).values)

\* Two calls for one task have loaded the same snapshot, run with
\* different inputs and returned: the checkpoint holds the three history
\* entries of the call that saved last, and those of the other are lost.
C29_Witness ==
    \E t \in TaskIds :
        /\ \A c \in AdvanceCallers :
            /\ advancing[c].pc = "returned"
            /\ advancing[c].task_id = t
            /\ advancing[c].snapshot = None
        /\ advancing["thread_1"].event_input # advancing["thread_2"].event_input
        /\ Len(checkpoint[t][1].task_state.history) = 3
        /\ \E c \in AdvanceCallers :
            /\ checkpoint[t] = Some(advancing[c].values)
            /\ \A d \in AdvanceCallers \ {c} :
                    checkpoint[t] # Some(advancing[d].values)

(***************************************************************************)
(* AgentEventBus.  Its methods are coroutines of one event loop.  The      *)
(* callbacks are async functions, as __init__ says of the subscriber       *)
(* lists: calling one makes a coroutine, and the coroutine runs, and       *)
(* returns or raises, when publish_event awaits the gather.                *)
(***************************************************************************)

\* Bound on the number of events published.
MaxPublished == 3

\* AgentEventBus.max_history_len.
max_history_len == 100

BusEventTypes == {"progress", "alert"}

Callbacks == {"on_progress", "on_alert", "on_log"}

\* The elements of a list.
Elements(list) == {list[i] : i \in 1..Len(list)}

\* list.remove(x): the list without the first x.
Remove(list, x) ==
    LET i == CHOOSE j \in 1..Len(list) :
                 list[j] = x /\ \A k \in 1..(j - 1) : list[k] # x
    IN  [k \in 1..(Len(list) - 1) |-> IF k < i THEN list[k] ELSE list[k + 1]]

\* An AgentEvent.  The n-th event published has event_id n: the model
\* tells the event objects apart and leaves the text of the id out.
AgentEvent(event_id, event_type) ==
    [event_id |-> event_id, event_type |-> event_type]

\* Mutant of gather: the first coroutine that raises ends the gather, the
\* later ones never run and the exception reaches the caller.
gather_stops_at_first_exception(callbacks, failing) ==
    LET raising == {i \in 1..Len(callbacks) : callbacks[i] \in failing}
        last == IF raising = {} THEN Len(callbacks)
                ELSE CHOOSE i \in raising : \A j \in raising : i <= j
    IN  [invoked |-> SubSeq(callbacks, 1, last),
         results |-> [i \in 1..last |->
                        IF callbacks[i] \in failing THEN Some("Exception") ELSE None],
         raised |-> IF raising = {} THEN None ELSE Some("Exception")]

\* asyncio.gather(*callback_tasks, return_exceptions=True) on the
\* coroutines of the given callbacks, of which those in failing raise:
\* every coroutine runs, an exception is a result, nothing is raised.
gather(callbacks, failing) ==
    [invoked |-> callbacks,
     results |-> [i \in 1..Len(callbacks) |->
                    IF callbacks[i] \in failing THEN Some("Exception") ELSE None],
     raised |-> None]

\* Mutant of subscribe: the callback is appended whether the list holds it
\* or not.
subscribe_again(event_type, callback) ==
    LET with_key == [t \in DOMAIN subscribers \cup {event_type} |->
                        IF t \in DOMAIN subscribers THEN subscribers[t] ELSE <<>>]
    IN  /\ subscribers' = [with_key EXCEPT ![event_type] = Append(@, callback)]
        /\ busOp' = BusObserved("subscribe", event_type, <<>>, <<>>, None)
        /\ UNCHANGED <<event_history, published>>

\* subscribe(event_type, callback)
subscribe(event_type, callback) ==
    LET with_key == [t \in DOMAIN subscribers \cup {event_type} |->
                        IF t \in DOMAIN subscribers THEN subscribers[t] ELSE <<>>]
    IN  /\ subscribers' =
              IF callback \notin Elements(with_key[event_type])
              THEN [with_key EXCEPT ![event_type] = Append(@, callback)]
              ELSE with_key
        /\ busOp' = BusObserved("subscribe", event_type, <<>>, <<>>, None)
        /\ UNCHANGED <<event_history, published>>

\* unsubscribe(event_type, callback)
unsubscribe(event_type, callback) ==
    /\ subscribers' =
          IF /\ event_type \in DOMAIN subscribers
             /\ callback \in Elements(subscribers[event_type])
          THEN LET removed == Remove(subscribers[event_type], callback)
               IN  IF removed = <<>>
                   THEN [t \in DOMAIN subscribers \ {event_type} |-> subscribers[t]]
                   ELSE [subscribers EXCEPT ![event_type] = removed]
          ELSE subscribers
    /\ busOp' = BusObserved("unsubscribe", event_type, <<>>, <<>>, None)
    /\ UNCHANGED <<event_history, published>>

\* Mutant of publish_event: the history is cut when it has reached
\* max_history_len, not when it has gone beyond it.
publish_event_cuts_early(event_type, failing) ==
    LET event == AgentEvent(published + 1, event_type)
        appended == Append(event_history, event)
    IN  /\ published < MaxPublished
        /\ failing \subseteq
              (IF event_type \in DOMAIN subscribers
               THEN Elements(subscribers[event_type]) ELSE {})
        /\ event_history' = IF Len(appended) >= max_history_len
                            THEN Tail(appended) ELSE appended
        /\ published' = published + 1
        /\ busOp' =
              IF event_type \in DOMAIN subscribers
              THEN LET gathered == gather(subscribers[event_type], failing)
                   IN  BusObserved("publish_event", event_type, gathered.invoked,
                                   gathered.results, gathered.raised)
              ELSE BusObserved("publish_event", event_type, <<>>, <<>>, None)
        /\ UNCHANGED subscribers

\* publish_event(source_agent_id, event_type, data); the coroutines of the
\* callbacks in failing raise.
publish_event(event_type, failing) ==
    LET event == AgentEvent(published + 1, event_type)
        appended == Append(event_history, event)
    IN  /\ published < MaxPublished
        /\ failing \subseteq
              (IF event_type \in DOMAIN subscribers
               THEN Elements(subscribers[event_type]) ELSE {})
        /\ event_history' = IF Len(appended) > max_history_len
                            THEN Tail(appended) ELSE appended
        /\ published' = published + 1
        /\ busOp' =
              IF event_type \in DOMAIN subscribers
              THEN LET gathered == gather(subscribers[event_type], failing)
                   IN  BusObserved("publish_event", event_type, gathered.invoked,
                                   gathered.results, gathered.raised)
              ELSE BusObserved("publish_event", event_type, <<>>, <<>>, None)
        /\ UNCHANGED subscribers

BusNext ==
    \/ \E e \in BusEventTypes, c \in Callbacks :
            subscribe(e, c) /\ UNCHANGED besidesBus
    \/ \E e \in BusEventTypes, c \in Callbacks :
            unsubscribe(e, c) /\ UNCHANGED besidesBus
    \/ \E e \in BusEventTypes, failing \in SUBSET Callbacks :
            publish_event(e, failing) /\ UNCHANGED besidesBus

BusSpec == Init /\ [][BusNext]_vars

\* C25: a publish_event that returned has called every callback subscribed
\* to the type of the event, in list order, has a result for every one of
\* them, whether its coroutine raised or not, and has raised nothing.
C25_FailuresIsolated ==
    busOp.op = "publish_event" =>
        /\ busOp.invoked = IF busOp.event_type \in DOMAIN subscribers
                           THEN subscribers[busOp.event_type] ELSE <<>>
        /\ Len(busOp.results) = Len(busOp.invoked)
        /\ busOp.raised = None

\* An event went to three subscribers; the coroutine of the first raised
\* and the two after it ran and returned.
C25_Witness ==
    /\ busOp.op = "publish_event"
    /\ Len(busOp.invoked) = 3
    /\ busOp.results = <<Some("Exception"), None, None>>
    /\ busOp.raised = None

(***************************************************************************)
(* MCPServer.handle_api_request, as the /execute_agent route calls it on   *)
(* the JSON object of a request.                                           *)
(***************************************************************************)

\* The agent classes __init__ instantiates; one stands for all.
AgentClasses == {"level_architect"}

\* What hasattr and callable find on an agent.
AgentKinds == {"has_handle_direct_request", "no_handle_direct_request"}

\* The names handle_api_request routes to a toolchain bridge.
ToolchainNames == {"muse", "retro_diffusion", "unity"}

\* The value of "parameters" in a request: a JSON object, of which the
\* keys that are read are kept, or JSON null.
ApiParameters(is_dict, command_type, command_text, prompt) ==
    [is_dict |-> is_dict, command_type |-> command_type,
     command_text |-> command_text, prompt |-> prompt]

JsonNull == ApiParameters(FALSE, Absent, Absent, Absent)

\* {}
EmptyParameters == ApiParameters(TRUE, Absent, Absent, Absent)

ParameterValues ==
    {JsonNull, EmptyParameters,
     ApiParameters(TRUE, "create", Absent, Absent),
     ApiParameters(TRUE, "create", "a cube", Absent),
     ApiParameters(TRUE, Absent, Absent, "a tree")}

\* The JSON object of a request.  task_id and agent_id are what
\* request_data.get returns, None for a key that is absent or null;
\* parameters is None when the key is absent.
RequestData(task_id, agent_id, parameters) ==
    [task_id |-> task_id, agent_id |-> agent_id, parameters |-> parameters]

ApiRequests ==
    {RequestData(t, a, p) :
        t \in {None, Some(""), Some("task_1")},
        a \in {None, Some(""), Some(Unhashable), Some("ghost")}
                \cup {Some(x) : x \in AgentClasses \cup ToolchainNames},
        p \in {None} \cup {Some(x) : x \in ParameterValues}}

\* How the call of a handler or of a bridge ends.
Outcomes == {"returns", "ConnectionError", "ValueError", "NotImplementedError",
             "Exception"}

\* What the body of the try comes to: a response returned or an exception
\* raised, and the handlers and bridges called.
Tried(response, raised, called) ==
    [response |-> response, raised |-> raised, called |-> called]

\* The call of a handler or a bridge, which returns or raises.
Called(task_id, name, result, outcome) ==
    IF outcome = "returns"
    THEN Tried(Some(ApiResponse(task_id, "success", Some(result), None)), Absent,
               <<name>>)
    ELSE Tried(None, outcome, <<name>>)

\* Lines 468-511: the body of the try of handle_api_request.
try_body(task_id, agent_id_req, parameters, outcome) ==
    IF agent_id_req = Unhashable
    THEN Tried(None, "TypeError", <<>>)
    ELSE IF agent_id_req \in DOMAIN server_agents
    THEN IF server_agents[agent_id_req] = "has_handle_direct_request"
         THEN Called(task_id, agent_id_req, "result_data", outcome)
         ELSE Tried(None, "NotImplementedError", <<>>)
    ELSE IF agent_id_req \in ToolchainNames
    THEN IF agent_id_req \notin toolchains
         THEN Tried(None, "ConnectionError", <<>>)
         ELSE IF ~parameters.is_dict
         THEN Tried(None, "AttributeError", <<>>)
         ELSE IF agent_id_req = "muse"
         THEN IF parameters.command_type = Absent \/ parameters.command_text = Absent
              THEN Tried(None, "ValueError", <<>>)
              ELSE Called(task_id, "muse", "muse_response", outcome)
         ELSE IF agent_id_req = "retro_diffusion"
         THEN IF parameters.prompt = Absent
              THEN Tried(None, "ValueError", <<>>)
              ELSE Called(task_id, "retro_diffusion", "asset_data", outcome)
         ELSE IF parameters.command_type = Absent
              THEN Tried(None, "ValueError", <<>>)
              ELSE Called(task_id, "unity", "unity_response", outcome)
    ELSE Tried(Some(ApiResponse(task_id, "failed", None, Some("AGENT_NOT_FOUND"))),
               Absent, <<>>)

\* Mutant of caught: there is no except Exception clause.
caught_by_name_only(raised) ==
    raised \in {"ConnectionError", "ValueError", "NotImplementedError"}

\* Lines 513-528: whether one of the except clauses catches.  The last one
\* is except Exception, and what the body raises is an Exception.
caught(raised) ==
    raised \in {"ConnectionError", "ValueError", "NotImplementedError",
                "TypeError", "AttributeError", "Exception"}

\* Lines 513-528: the error code of the except clause that catches.
error_code(raised) ==
    CASE raised = "ConnectionError" -> "TOOLCHAIN_CONNECTION_ERROR"
      [] raised = "ValueError" -> "INVALID_PARAMETERS"
      [] raised = "NotImplementedError" -> "AGENT_INTERFACE_ERROR"
      [] OTHER -> "EXECUTION_ERROR"

\* handle_api_request(request_data); outcome is how the handler or the
\* bridge ends if one is called.
handle_api_request(request_data, outcome) ==
    LET task_id == request_data.task_id
        agent_id_req == request_data.agent_id
        parameters == IF request_data.parameters = None THEN EmptyParameters
                      ELSE request_data.parameters[1]
    IN  /\ apiOp' =
              IF ~TruthyId(task_id) \/ ~TruthyId(agent_id_req)
              THEN ApiObserved(request_data,
                       Some(ApiResponse(IF TruthyId(task_id) THEN task_id[1]
                                        ELSE "unknown_task",
                                        "failed", None, Some("INVALID_REQUEST"))),
                       <<>>, Absent)
              ELSE LET tried == try_body(task_id[1], agent_id_req[1], parameters,
                                         outcome)
                   IN  IF tried.raised = Absent
                       THEN ApiObserved(request_data, tried.response, tried.called,
                                        Absent)
                       ELSE IF caught(tried.raised)
                       THEN ApiObserved(request_data,
                                Some(ApiResponse(task_id[1], "failed", None,
                                                 Some(error_code(tried.raised)))),
                                tried.called, tried.raised)
                       ELSE ApiObserved(request_data, None, tried.called,
                                        tried.raised)
        /\ UNCHANGED <<server_agents, toolchains>>

\* The agents a server can hold after __init__: an agent whose constructor
\* raised is left out.
AgentInstances ==
    UNION {[ids -> AgentKinds] : ids \in SUBSET AgentClasses}

\* An MCPServer with any agents and any bridges.
ServerInit ==
    /\ StateManagerConstructed
    /\ BridgeConstructed("BaseToolchainBridge")
    /\ CollaborationManagerConstructed
    /\ NoNodeCalled
    /\ NoAdvance
    /\ AgentEventBusConstructed
    /\ \E agent_instances \in AgentInstances, bridges \in SUBSET ToolchainNames :
            MCPServerConstructed(agent_instances, bridges)

ServerNext ==
    \E request_data \in ApiRequests, outcome \in Outcomes :
        handle_api_request(request_data, outcome) /\ UNCHANGED besidesServer

ServerSpec == ServerInit /\ [][ServerNext]_vars

\* C24: a request without task_id or agent_id, or with an empty one, is
\* answered failed with INVALID_REQUEST; a request with both whose agent_id
\* is not a key of agents and not the name of a toolchain is answered failed
\* with AGENT_NOT_FOUND and its task_id; in both cases no handler and no
\* bridge has been called.
C24_BadRequestsClassified ==
    apiOp.response # None =>
        LET request_data == apiOp.request_data
            response == apiOp.response[1]
        IN  /\ (~TruthyId(request_data.task_id) \/ ~TruthyId(request_data.agent_id)) =>
                    /\ response.status = "failed"
                    /\ response.error = Some("INVALID_REQUEST")
                    /\ apiOp.called = <<>>
            /\ ( /\ TruthyId(request_data.task_id)
                 /\ TruthyId(request_data.agent_id)
                 /\ request_data.agent_id[1] \notin DOMAIN server_agents
                 /\ request_data.agent_id[1] \notin ToolchainNames ) =>
                    /\ response.status = "failed"
                    /\ response.error = Some("AGENT_NOT_FOUND")
                    /\ response.task_id = request_data.task_id[1]
                    /\ apiOp.called = <<>>

(***************************************************************************)
(* More properties of the bridge.                                          *)
(***************************************************************************)

\* How often x occurs in seq.
Occurrences(seq, x) == Cardinality({i \in 1..Len(seq) : seq[i] = x})

\* The workers that have taken request r off the queue and not yet
\* called the external function for it.
Holders(ths, r) ==
    {w \in 1..Len(ths) : ths[w].pc = "handle" /\ ths[w].request = r}

\* C30: a request that was put on the queue is at any time in exactly one
\* place: on the queue once, in the hands of one worker, or handled once.
\* When it has been handled its future holds the outcome of that call, and
\* a future that is resolved is never set again.
C30_ConsumedExactlyOnce ==
    [][\A r \in 1..Len(requests') :
        LET handled == Occurrences(handle_calls', r)
            places == Occurrences(request_queue', r)
                        + Cardinality(Holders(threads', r)) + handled
        IN  /\ places = IF futures'[r].state # "pending" /\ handled = 0
                        THEN 0 ELSE 1
            /\ handled = 1 =>
                    /\ futures'[r].state # "pending"
                    /\ handle_calls'[futures'[r].value] = r
            /\ (r <= Len(futures) /\ futures[r].state # "pending") =>
                    futures'[r] = futures[r]]_vars

\* Two workers have taken one request each and both requests are handled,
\* the later one first.
C30_Witness ==
    /\ bridge_class = "MuseToolchainBridge"
    /\ Len(threads) = 2
    /\ handle_calls = <<2, 1>>
    /\ \A r \in 1..2 : futures[r].state # "pending"

\* C31: under fair scheduling there is a moment from which on no worker
\* thread is alive: every worker ends when it finds the queue empty, and
\* none stays in a get on an empty queue.
C31_WorkersTerminate ==
    <>[](\A w \in 1..Len(threads) : ~is_alive(threads[w]))

\* The cache key of a request.
KeyOf(request) == generate_cache_key(request.payload, request.parameters)

\* C33: a step in which the pipeline raises for a request sets the
\* exception on the future of the request and leaves the result cache as it
\* is; a generate_asset whose key is not in the cache is put on the queue
\* with a pending future, whatever happened to earlier requests with that
\* key; and the asset the cache holds for a key is the result of a call of
\* the pipeline for a request with that key that returned.
C33_FailuresNotCached ==
    [][bridge_class = "RetroDiffusionToolchainBridge" =>
        /\ \A r \in 1..Len(requests) :
              (/\ handle_calls' = Append(handle_calls, r)
               /\ futures'[r].state # "result") =>
                    /\ futures'[r] = Exception(Len(handle_calls'))
                    /\ result_cache' = result_cache
        /\ (Len(requests') = Len(requests) + 1
             /\ KeyOf(requests'[Len(requests')]) \notin DOMAIN result_cache) =>
                    /\ futures'[Len(requests')] = Pending
                    /\ request_queue' = Append(request_queue, Len(requests'))
        /\ \A key \in DOMAIN result_cache' :
              LET i == result_cache'[key]
              IN  /\ i \in 1..Len(handle_calls')
                  /\ KeyOf(requests'[handle_calls'[i]]) = key
                  /\ futures'[handle_calls'[i]] = Result(i)]_vars

\* The pipeline raised for request 1 and returned for request 2, which has
\* the key of request 1: the cache holds the asset of the second call.
C33_Witness ==
    /\ bridge_class = "RetroDiffusionToolchainBridge"
    /\ Len(requests) = 2
    /\ CacheKey(1) = CacheKey(2)
    /\ handle_calls = <<1, 2>>
    /\ futures[1] = Exception(1)
    /\ futures[2] = Result(2)
    /\ result_cache[CacheKey(2)] = 2

(***************************************************************************)
(* BaseToolchainBridge with shutdown.  shutdown takes no lock: its test of *)
(* the worker and its put of the sentinel are two steps of the calling     *)
(* thread.  The join that follows changes nothing and returns after the    *)
(* worker has ended or after its timeout.                                  *)
(***************************************************************************)

\* Bound on the stop sentinels that are on the queue or about to be put.
MaxSentinels == 1

\* shutdown: if self._worker_thread and self._worker_thread.is_alive()
shutdown_test(c) ==
    /\ bridge_class = "BaseToolchainBridge"
    /\ callers[c].pc = "idle"
    /\ worker_thread # None
    /\ is_alive(threads[worker_thread[1]])
    /\ Occurrences(request_queue, StopSentinel)
            + Cardinality({d \in Callers : callers[d].pc = "put_sentinel"})
         < MaxSentinels
    /\ callers' = [callers EXCEPT ![c].pc = "put_sentinel"]
    /\ UNCHANGED <<bridge_class, request_queue, requests, futures, result_cache,
                   worker_thread, worker_lock, threads, handle_calls>>

\* shutdown: self._request_queue.put(None), the join, and the return.
shutdown_put(c) ==
    /\ callers[c].pc = "put_sentinel"
    /\ request_queue' = Append(request_queue, StopSentinel)
    /\ callers' = [callers EXCEPT ![c].pc = "idle"]
    /\ UNCHANGED <<bridge_class, requests, futures, result_cache, worker_thread,
                   worker_lock, threads, handle_calls>>

ShutdownNext ==
    \/ \E c \in Callers, payload \in Payloads :
            submit_request(c, payload) /\ UNCHANGED besidesBridge
    \/ \E c \in Callers : start_worker_if_needed_locked(c) /\ UNCHANGED besidesBridge
    \/ \E c \in Callers : start_worker_if_needed_release(c) /\ UNCHANGED besidesBridge
    \/ \E w \in Threads : process_request_queue_get(w) /\ UNCHANGED besidesBridge
    \/ \E w \in Threads, raises \in BOOLEAN :
            process_request_queue_handle(w, raises) /\ UNCHANGED besidesBridge
    \/ \E c \in Callers : shutdown_test(c) /\ UNCHANGED besidesBridge
    \/ \E c \in Callers : shutdown_put(c) /\ UNCHANGED besidesBridge

ShutdownSpec == Init /\ [][ShutdownNext]_vars

\* C32: when no submit and no shutdown is under way, a request that is on
\* the queue has a live worker to take it: neither the worker that stopped
\* on the sentinel nor a submit that came during or after the shutdown has
\* left a request behind.
C32_ShutdownLosesNoRequest ==
    (/\ \A c \in Callers : callers[c].pc = "idle"
     /\ \E i \in 1..Len(request_queue) : request_queue[i] # StopSentinel) =>
        LiveThreads # {}

(***************************************************************************)
(* More properties of the CollaborationManager.                            *)
(***************************************************************************)

\* C34: two assistance requests that are tracked and not terminal have
\* different assisting agents.
C34_OneOpenRequestPerAssistant ==
    \A id1 \in DOMAIN pending_assistance_requests,
       id2 \in DOMAIN pending_assistance_requests :
        (/\ id1 # id2
         /\ pending_assistance_requests[id1].status \notin TerminalStatuses
         /\ pending_assistance_requests[id2].status \notin TerminalStatuses) =>
            pending_assistance_requests[id1].assigned_assisting_agent_id
                # pending_assistance_requests[id2].assigned_assisting_agent_id

\* The statuses of the specification; the code writes pending as
\* pending_dispatch.
SpecifiedStatuses ==
    {"pending_dispatch", "dispatched_to_mcp", "completed", "failed", "rejected"}

\* C35: every tracked request has one of the specified statuses, and the
\* status of a request that is terminal before a step is the same after it.
C35_TerminalStatusIsFinal ==
    [][\A id \in DOMAIN pending_assistance_requests' :
        /\ pending_assistance_requests'[id].status \in SpecifiedStatuses
        /\ (/\ id \in DOMAIN pending_assistance_requests
             /\ pending_assistance_requests[id].status \in TerminalStatuses) =>
                pending_assistance_requests'[id].status =
                    pending_assistance_requests[id].status]_vars

\* C36: a request_assistance call that finds an assisting agent binds its
\* request to a request_id that no tracked request has.
C36_RequestIdsAreFresh ==
    [][\A a \in CollabAgentIds, t \in OriginalTaskIds, x \in Capabilities :
        (/\ collabOp'.op = "request_assistance"
         /\ ~collabOp'.has_returned
         /\ request_assistance(a, t, x)) =>
            <<t, clock>> \notin DOMAIN pending_assistance_requests]_vars

(***************************************************************************)
(* More properties of the AgentEventBus.  The bus of HistorySpec has       *)
(* published events before: its history holds the latest of them, which    *)
(* have the event_ids up to 0.                                             *)
(***************************************************************************)

\* How many events the history holds at the start.
HistoryLengths == {0, max_history_len - 1, max_history_len}

HistoryInit ==
    /\ StateManagerConstructed
    /\ BridgeConstructed("BaseToolchainBridge")
    /\ CollaborationManagerConstructed
    /\ NoNodeCalled
    /\ NoAdvance
    /\ NoAgentsNoBridges
    /\ subscribers = <<>>
    /\ \E n \in HistoryLengths :
            event_history = [i \in 1..n |-> AgentEvent(i - n, "progress")]
    /\ published = 0
    /\ busOp = BusObserved("init", Absent, <<>>, <<>>, None)

HistorySpec == HistoryInit /\ [][BusNext]_vars

\* The last n elements of a list, all of them if it has fewer.
Last(list, n) ==
    IF Len(list) <= n THEN list ELSE SubSeq(list, Len(list) - n + 1, Len(list))

\* C37: the history never holds more than 100 events, and a publish leaves
\* in it the latest 100 of the events it held followed by the new event,
\* in that order, all of them if they are fewer.
C37_HistoryIsRingBuffer ==
    [][/\ Len(event_history') <= 100
       /\ published' = published + 1 =>
            /\ event_history' # <<>>
            /\ event_history'[Len(event_history')].event_id = published'
            /\ event_history' =
                    Last(Append(event_history, event_history'[Len(event_history')]),
                         100)]_vars

\* The history is full and the two oldest events it held have been
\* dropped for the events published last.
C37_Witness ==
    /\ Len(event_history) = 100
    /\ published = 3
    /\ event_history[1].event_id = -96
    /\ event_history[100].event_id = 3

\* The callbacks subscribed to an event type.
SubscribedTo(subs, event_type) ==
    IF event_type \in DOMAIN subs THEN Elements(subs[event_type]) ELSE {}

\* C38: no subscriber list holds a callback twice.  A subscribe adds the
\* callback to the callbacks of its type and an unsubscribe takes it away
\* from them, both leave the other types alone, and an unsubscribe of a
\* callback that is not subscribed leaves everything as it is.  A publish
\* calls every callback subscribed to its type once and no other callback.
C38_SubscribedOnceInvokedOnce ==
    [][/\ \A e \in DOMAIN subscribers' :
            Cardinality(Elements(subscribers'[e])) = Len(subscribers'[e])
       /\ \A e \in BusEventTypes, c \in Callbacks :
            /\ (busOp'.op = "subscribe" /\ subscribe(e, c)) =>
                    /\ SubscribedTo(subscribers', e) = SubscribedTo(subscribers, e) \cup {c}
                    /\ \A o \in BusEventTypes \ {e} :
                            SubscribedTo(subscribers', o) = SubscribedTo(subscribers, o)
            /\ (busOp'.op = "unsubscribe" /\ unsubscribe(e, c)) =>
                    /\ SubscribedTo(subscribers', e) = SubscribedTo(subscribers, e) \ {c}
                    /\ \A o \in BusEventTypes \ {e} :
                            SubscribedTo(subscribers', o) = SubscribedTo(subscribers, o)
                    /\ c \notin SubscribedTo(subscribers, e) =>
                            /\ subscribers' = subscribers
                            /\ event_history' = event_history
            /\ (busOp'.op = "publish_event" /\ busOp'.event_type = e
                 /\ published' = published + 1) =>
                    Occurrences(busOp'.invoked, c) =
                        IF c \in SubscribedTo(subscribers, e) THEN 1 ELSE 0]_vars

\* A progress event went to the two callbacks subscribed to progress and
\* not to the callback subscribed to alert.
C38_Witness ==
    /\ busOp.op = "publish_event"
    /\ busOp.event_type = "progress"
    /\ busOp.invoked = <<"on_log", "on_progress">>
    /\ SubscribedTo(subscribers, "alert") = {"on_alert"}

(***************************************************************************)
(* More properties of the MCPServer.                                       *)
(***************************************************************************)

ErrorCodesOfExceptions ==
    {"EXECUTION_ERROR", "INVALID_PARAMETERS", "TOOLCHAIN_CONNECTION_ERROR",
     "AGENT_INTERFACE_ERROR"}

\* C39: a handle_api_request in whose try an exception was raised has
\* returned a response nevertheless; every response has the status success
\* or failed; and when a handler or a bridge was called and raised, the
\* response is failed with one of the four error codes of the except
\* clauses and without a result.
C39_NeverPropagates ==
    /\ apiOp.raised # Absent => apiOp.response # None
    /\ apiOp.response # None =>
            /\ apiOp.response[1].status \in {"success", "failed"}
            /\ (apiOp.called # <<>> /\ apiOp.raised # Absent) =>
                    /\ apiOp.response[1].status = "failed"
                    /\ apiOp.response[1].error # None
                    /\ apiOp.response[1].error[1] \in ErrorCodesOfExceptions
                    /\ apiOp.response[1].result = None

\* The handler of a registered agent raised an exception that has no
\* except clause of its own, and the caller got EXECUTION_ERROR.
C39_Witness ==
    /\ apiOp.called = <<"level_architect">>
    /\ apiOp.raised = "Exception"
    /\ apiOp.response =
            Some(ApiResponse("task_1", "failed", None, Some("EXECUTION_ERROR")))

====
